---- MODULE Spec2Model ----
(***************************************************************************)
(* The spatial-diagram generators of the slide repository:                 *)
(*   createSpatialDiagram   (1D, horizontal and vertical orientation)      *)
(*   createSpatialDiagram2D (two axes crossing at the canvas centre)       *)
(*   measureLabel           (the scratch element attached to the document) *)
(*                                                                         *)
(* A call is a run of the state machine: Call destructures the props and   *)
(* opens the svg, one action per statement group appends the elements it   *)
(* emits to svg, and Return closes the document.  measureLabel is the      *)
(* three steps MeasureAttach, MeasureRect, MeasureDetach.                  *)
(*                                                                         *)
(* Numbers are pixels.  Every input below is chosen so that the products   *)
(* position * length and the halvings of the code are whole numbers, so    *)
(* the integer arithmetic here is the arithmetic the code does on them.    *)
(* The markup is a sequence of elements; an element is a record of its tag *)
(* and attributes.  The fields "of" and "idx" are not attributes: they     *)
(* name the statement that emitted the element and the array index of the  *)
(* tic, policy or person it belongs to.                                    *)
(***************************************************************************)
EXTENDS Integers, Sequences, FiniteSets, TLC

VARIABLES
    callee,         \* which exported function the caller invokes
    props,          \* the argument of the call
    pc,             \* position in the function body
    i,              \* index of the loop in progress
    svg,            \* svgContent, as the sequence of elements appended so far
    maxPersonLabel, \* maxPersonLabelBottom (horizontal) / maxPersonLabelRight (vertical)
    mpc,            \* position inside measureLabel
    labelDims,      \* the value measureLabel returned for the current label
    body,           \* children of document.body
    rendered,       \* what the rendering surface answers for the labels measured so far
    returned,       \* outcome of every finished call, in order
    callsLeft,      \* calls the caller still makes
    measureCalls    \* invocations of measureLabel in the current call

vars == <<callee, props, pc, i, svg, maxPersonLabel, mpc, labelDims, body,
          rendered, returned, callsLeft, measureCalls>>

----------------------------------------------------------------------------
(* Bounds of the model *)

\* Most tics + policies + persons of one diagram.
MaxPoints == 2

\* Most points of a diagram that is generated twice.
MaxPointsTwice == 1

----------------------------------------------------------------------------
(* Constants of the program *)

DefaultFontSize == 16
ArrowSize == 6
TicLength == 4
TicLabelGap == 2
LabelGap == 5
CaptionGap == 10
DirectionArrowLength == 40

----------------------------------------------------------------------------
(* Values *)

Has(r, f) == f \in DOMAIN r

\* x / 2
Half(x) == x \div 2

Max(a, b) == IF a >= b THEN a ELSE b

\* A position is the proportion num/den; position * length.
\* a faulty variant: the position clamped to [0, 1] first
TimesClamped(position, length) ==
    IF position.num < 0 THEN 0
    ELSE IF position.num > position.den THEN length
    ELSE (position.num * length) \div position.den

Times(position, length) == (position.num * length) \div position.den

Frac(n, d) == [num |-> n, den |-> d]

\* a ?? false
OrFalse(r, f) == IF Has(r, f) THEN r[f] ELSE FALSE

\* katex.renderToString(label, ...) when asLaTeX, the label itself otherwise
LabelHtml(label, asLaTeX) ==
    IF asLaTeX THEN <<"katex", label>> ELSE <<"html", label>>

Line(of, idx, x1, y1, x2, y2, strokeWidth, markerEnd, dashed) ==
    [tag |-> "line", of |-> of, idx |-> idx, x1 |-> x1, y1 |-> y1, x2 |-> x2,
     y2 |-> y2, stroke |-> "currentColor", strokeWidth |-> strokeWidth,
     markerEnd |-> markerEnd, dashed |-> dashed]

Path(of, idx, points) ==
    [tag |-> "path", of |-> of, idx |-> idx, points |-> points,
     fill |-> "currentColor"]

\* a faulty variant: the box padded by 2px on each side of the given size
ForeignObjectPadded(of, idx, x, y, width, height, id, html, fontSize, align) ==
    [tag |-> "foreignObject", of |-> of, idx |-> idx, x |-> x, y |-> y,
     width |-> width + 4, height |-> height + 4, id |-> id, html |-> html,
     fontSize |-> fontSize, align |-> align]

ForeignObject(of, idx, x, y, width, height, id, html, fontSize, align) ==
    [tag |-> "foreignObject", of |-> of, idx |-> idx, x |-> x, y |-> y,
     width |-> width, height |-> height, id |-> id, html |-> html,
     fontSize |-> fontSize, align |-> align]

OpenTag(p) ==
    [tag |-> "svg", of |-> "open", idx |-> 0, id |-> p.id, width |-> p.width,
     height |-> p.height]

CloseTag == [tag |-> "/svg", of |-> "close", idx |-> 0]

MarkerDef(p) ==
    [tag |-> "marker", of |-> "marker", idx |-> 0, id |-> <<"arrowhead-", p.id>>,
     fill |-> "currentColor"]

MarkerUrl(p) == <<"url(#", <<"arrowhead-", p.id>>, ")">>

\* a faulty variant: the left and the right triangle exchanged
createArrowMirrored(of, idx, x, y, direction) ==
    LET size == ArrowSize IN
    IF direction = "up"
    THEN Path(of, idx, <<<<x, y>>, <<x - size, y + size>>, <<x + size, y + size>>>>)
    ELSE IF direction = "down"
    THEN Path(of, idx, <<<<x, y>>, <<x - size, y - size>>, <<x + size, y - size>>>>)
    ELSE IF direction = "left"
    THEN Path(of, idx, <<<<x, y>>, <<x - size, y - size>>, <<x - size, y + size>>>>)
    ELSE Path(of, idx, <<<<x, y>>, <<x + size, y - size>>, <<x + size, y + size>>>>)

\* createArrow: the triangle whose first point is the tip
createArrow(of, idx, x, y, direction) ==
    LET size == ArrowSize IN
    IF direction = "up"
    THEN Path(of, idx, <<<<x, y>>, <<x - size, y + size>>, <<x + size, y + size>>>>)
    ELSE IF direction = "down"
    THEN Path(of, idx, <<<<x, y>>, <<x - size, y - size>>, <<x + size, y - size>>>>)
    ELSE IF direction = "left"
    THEN Path(of, idx, <<<<x, y>>, <<x + size, y - size>>, <<x + size, y + size>>>>)
    ELSE Path(of, idx, <<<<x, y>>, <<x - size, y - size>>, <<x - size, y + size>>>>)

----------------------------------------------------------------------------
(* createSpatialDiagram: the destructured props *)

FontSize(p) == IF Has(p, "fontSize") THEN p.fontSize ELSE DefaultFontSize
Persons(p) == IF Has(p, "persons") THEN p.persons ELSE <<>>
Policies(p) == IF Has(p, "policies") THEN p.policies ELSE <<>>
\* a faulty variant: the axis stands upright unless told otherwise
OrientationDefaultVertical(p) ==
    IF Has(p, "orientation") THEN p.orientation ELSE "vertical"
Orientation(p) == IF Has(p, "orientation") THEN p.orientation ELSE "horizontal"
isVertical(p) == Orientation(p) = "vertical"
\* if (scale) for (const tic of scale.tics)
Tics(p) == IF Has(p, "scale") THEN p.scale.tics ELSE <<>>
ScaleLaTeX(p) == IF Has(p, "scale") THEN OrFalse(p.scale, "asLaTeX") ELSE FALSE
\* if (tic.label)
TicHasLabel(tic) == Has(tic, "label") /\ tic.label # ""
HasSpaceLabel(p) == Has(p, "spaceLabel")
HasDirection(p) == Has(p, "LabelDirection")

----------------------------------------------------------------------------
(* createSpatialDiagram, horizontal branch *)

lineY(p) == Half(p.height)
\* a faulty variant: the line taken to start at the canvas edge
lineStartXAtEdge(p) == 0

lineStartX(p) == p.marginX
lineEndX(p) == p.width - p.marginX
\* a faulty variant: the line's end taken for its length
HLineLengthFromEdge(p) == lineEndX(p)

HLineLength(p) == lineEndX(p) - lineStartX(p)

HAxis(p) ==
    Line("axis", 0, lineStartX(p), lineY(p), lineEndX(p), lineY(p), 2, <<>>, FALSE)

HTicX(p, tic) == lineStartX(p) + Times(tic.pos, HLineLength(p))

HTicMark(p, tic, idx) ==
    LET x == HTicX(p, tic) IN
    Line("tic", idx, x, lineY(p), x, lineY(p) + TicLength, 2, <<>>, FALSE)

HTicLabel(p, tic, idx, dims) ==
    LET x == HTicX(p, tic)
        labelX == x - Half(dims.width)
        labelY == lineY(p) + TicLength + TicLabelGap
    IN  ForeignObject("ticLabel", idx, labelX, labelY, dims.width, dims.height,
                      <<>>, LabelHtml(tic.label, ScaleLaTeX(p)), FontSize(p), "center")

\* a faulty variant: the arrowhead drawn at the label's end of the arrow
HPolicyHeadAtLabel(p, policy, idx, dims) ==
    LET x == lineStartX(p) + Times(policy.position, HLineLength(p))
        useLaTeX == OrFalse(policy, "asLaTeX")
        labelX == x - Half(dims.width)
        arrowTopY == p.marginY + dims.height + LabelGap
        arrowHeight == lineY(p) - arrowTopY
        labelY == p.marginY
    IN  (IF arrowHeight > 0
         THEN <<Line("policyArrow", idx, x, arrowTopY, x, lineY(p), 1, <<>>, FALSE),
                createArrow("policyHead", idx, x, arrowTopY, "down")>>
         ELSE <<>>)
        \o <<ForeignObject("policyLabel", idx, labelX, labelY, dims.width,
                           dims.height, policy.label,
                           LabelHtml(policy.label, useLaTeX), FontSize(p), "center")>>

HPolicy(p, policy, idx, dims) ==
    LET x == lineStartX(p) + Times(policy.position, HLineLength(p))
        useLaTeX == OrFalse(policy, "asLaTeX")
        labelX == x - Half(dims.width)
        arrowTopY == p.marginY + dims.height + LabelGap
        arrowHeight == lineY(p) - arrowTopY
        labelY == p.marginY
    IN  (IF arrowHeight > 0
         THEN <<Line("policyArrow", idx, x, arrowTopY, x, lineY(p), 1, <<>>, FALSE),
                createArrow("policyHead", idx, x, lineY(p), "down")>>
         ELSE <<>>)
        \o <<ForeignObject("policyLabel", idx, labelX, labelY, dims.width,
                           dims.height, policy.label,
                           LabelHtml(policy.label, useLaTeX), FontSize(p), "center")>>

\* a faulty variant: the arrow is drawn for a zero length too
HPersonZeroLength(p, person, idx, dims) ==
    LET x == lineStartX(p) + Times(person.position, HLineLength(p))
        useLaTeX == OrFalse(person, "asLaTeX")
        labelY == p.height - p.marginY - dims.height
        arrowBottomY == labelY - LabelGap
        arrowHeight == arrowBottomY - lineY(p)
        labelX == x - Half(dims.width)
    IN  (IF arrowHeight >= 0
         THEN <<Line("personArrow", idx, x, lineY(p), x, arrowBottomY, 1, <<>>, FALSE),
                createArrow("personHead", idx, x, lineY(p), "up")>>
         ELSE <<>>)
        \o <<ForeignObject("personLabel", idx, labelX, labelY, dims.width,
                           dims.height, person.label,
                           LabelHtml(person.label, useLaTeX), FontSize(p), "center")>>

HPerson(p, person, idx, dims) ==
    LET x == lineStartX(p) + Times(person.position, HLineLength(p))
        useLaTeX == OrFalse(person, "asLaTeX")
        labelY == p.height - p.marginY - dims.height
        arrowBottomY == labelY - LabelGap
        arrowHeight == arrowBottomY - lineY(p)
        labelX == x - Half(dims.width)
    IN  (IF arrowHeight > 0
         THEN <<Line("personArrow", idx, x, lineY(p), x, arrowBottomY, 1, <<>>, FALSE),
                createArrow("personHead", idx, x, lineY(p), "up")>>
         ELSE <<>>)
        \o <<ForeignObject("personLabel", idx, labelX, labelY, dims.width,
                           dims.height, person.label,
                           LabelHtml(person.label, useLaTeX), FontSize(p), "center")>>

\* maxPersonLabelBottom = Math.max(maxPersonLabelBottom, labelY + labelDims.height)
\* a faulty variant: the label's top edge taken for its bottom edge
HPersonMaxLabelTop(p, dims, maxSoFar) ==
    LET labelY == p.height - p.marginY - dims.height
    IN  Max(maxSoFar, labelY)

HPersonMax(p, dims, maxSoFar) ==
    LET labelY == p.height - p.marginY - dims.height
    IN  Max(maxSoFar, labelY + dims.height)

HSpaceLabel(p, dims, maxPersonLabelBottom) ==
    LET useLaTeX == OrFalse(p.spaceLabel, "asLaTeX")
        lineCenterX == lineStartX(p) + Half(HLineLength(p))
        labelX == lineCenterX - Half(dims.width)
        labelY == maxPersonLabelBottom + CaptionGap
        arrowY == labelY + dims.height + 10
        arrowLength == DirectionArrowLength
    IN  <<ForeignObject("spaceLabel", 0, labelX, labelY, dims.width, dims.height,
                        p.spaceLabel.label,
                        LabelHtml(p.spaceLabel.label, useLaTeX), FontSize(p), "center")>>
        \o (IF HasDirection(p)
            THEN IF p.LabelDirection = "right"
                 THEN <<Line("direction", 0, lineCenterX - Half(arrowLength), arrowY,
                             lineCenterX + Half(arrowLength), arrowY, 1,
                             MarkerUrl(p), FALSE)>>
                 ELSE <<Line("direction", 0, lineCenterX + Half(arrowLength), arrowY,
                             lineCenterX - Half(arrowLength), arrowY, 1,
                             MarkerUrl(p), FALSE)>>
            ELSE <<>>)

----------------------------------------------------------------------------
(* createSpatialDiagram, vertical branch *)

lineX(p) == Half(p.width)
lineStartY(p) == p.marginY
lineEndY(p) == p.height - p.marginY
VLineLength(p) == lineEndY(p) - lineStartY(p)

VAxis(p) ==
    Line("axis", 0, lineX(p), lineStartY(p), lineX(p), lineEndY(p), 2, <<>>, FALSE)

VTicY(p, tic) == lineStartY(p) + Times(tic.pos, VLineLength(p))

VTicMark(p, tic, idx) ==
    LET y == VTicY(p, tic) IN
    Line("tic", idx, lineX(p), y, lineX(p) + TicLength, y, 2, <<>>, FALSE)

VTicLabel(p, tic, idx, dims) ==
    LET y == VTicY(p, tic)
        labelX == lineX(p) + TicLength + TicLabelGap
        labelY == y - Half(dims.height)
    IN  ForeignObject("ticLabel", idx, labelX, labelY, dims.width, dims.height,
                      <<>>, LabelHtml(tic.label, ScaleLaTeX(p)), FontSize(p), "left")

VPolicy(p, policy, idx, dims) ==
    LET y == lineStartY(p) + Times(policy.position, VLineLength(p))
        useLaTeX == OrFalse(policy, "asLaTeX")
        arrowLeftX == lineX(p)
        arrowRightX == p.width - p.marginX - dims.width - LabelGap
        arrowLength == arrowRightX - arrowLeftX
        labelX == p.width - p.marginX - dims.width
        labelY == y - Half(dims.height)
    IN  (IF arrowLength > 0
         THEN <<Line("policyArrow", idx, arrowLeftX, y, arrowRightX, y, 1, <<>>, FALSE),
                createArrow("policyHead", idx, lineX(p), y, "left")>>
         ELSE <<>>)
        \o <<ForeignObject("policyLabel", idx, labelX, labelY, dims.width,
                           dims.height, policy.label,
                           LabelHtml(policy.label, useLaTeX), FontSize(p), "left")>>

VPerson(p, person, idx, dims) ==
    LET y == lineStartY(p) + Times(person.position, VLineLength(p))
        useLaTeX == OrFalse(person, "asLaTeX")
        labelX == p.marginX
        arrowRightX == lineX(p)
        arrowLeftX == labelX + dims.width + LabelGap
        arrowLength == arrowRightX - arrowLeftX
        labelY == y - Half(dims.height)
    IN  (IF arrowLength > 0
         THEN <<Line("personArrow", idx, arrowLeftX, y, arrowRightX, y, 1, <<>>, FALSE),
                createArrow("personHead", idx, lineX(p), y, "right")>>
         ELSE <<>>)
        \o <<ForeignObject("personLabel", idx, labelX, labelY, dims.width,
                           dims.height, person.label,
                           LabelHtml(person.label, useLaTeX), FontSize(p), "right")>>

\* maxPersonLabelRight = Math.max(maxPersonLabelRight, labelX + labelDims.width)
VPersonMax(p, dims, maxSoFar) ==
    LET labelX == p.marginX
    IN  Max(maxSoFar, labelX + dims.width)

VSpaceLabel(p, dims, maxPersonLabelRight) ==
    LET useLaTeX == OrFalse(p.spaceLabel, "asLaTeX")
        lineCenterY == lineStartY(p) + Half(VLineLength(p))
        labelX == maxPersonLabelRight + CaptionGap
        labelY == lineCenterY - Half(dims.height)
        arrowX == labelX + dims.width + 10
        arrowLength == DirectionArrowLength
    IN  <<ForeignObject("spaceLabel", 0, labelX, labelY, dims.width, dims.height,
                        p.spaceLabel.label,
                        LabelHtml(p.spaceLabel.label, useLaTeX), FontSize(p), "left")>>
        \o (IF HasDirection(p)
            THEN IF p.LabelDirection = "down"
                 THEN <<Line("direction", 0, arrowX, lineCenterY - Half(arrowLength),
                             arrowX, lineCenterY + Half(arrowLength), 1,
                             MarkerUrl(p), FALSE)>>
                 ELSE IF p.LabelDirection = "up"
                 THEN <<Line("direction", 0, arrowX, lineCenterY + Half(arrowLength),
                             arrowX, lineCenterY - Half(arrowLength), 1,
                             MarkerUrl(p), FALSE)>>
                 ELSE <<>>
            ELSE <<>>)

----------------------------------------------------------------------------
(* createSpatialDiagram: what each statement group appends, by orientation *)

Axis(p) == IF isVertical(p) THEN VAxis(p) ELSE HAxis(p)
TicMark(p, tic, idx) ==
    IF isVertical(p) THEN VTicMark(p, tic, idx) ELSE HTicMark(p, tic, idx)
TicLabel(p, tic, idx, dims) ==
    IF isVertical(p) THEN VTicLabel(p, tic, idx, dims) ELSE HTicLabel(p, tic, idx, dims)
PolicyElems(p, policy, idx, dims) ==
    IF isVertical(p) THEN VPolicy(p, policy, idx, dims) ELSE HPolicy(p, policy, idx, dims)
PersonElems(p, person, idx, dims) ==
    IF isVertical(p) THEN VPerson(p, person, idx, dims) ELSE HPerson(p, person, idx, dims)
PersonMax(p, dims, maxSoFar) ==
    IF isVertical(p) THEN VPersonMax(p, dims, maxSoFar) ELSE HPersonMax(p, dims, maxSoFar)
\* a faulty variant: the running maximum starts past the policy labels when there
\* are policies
PersonMaxStartPastPolicies(p) ==
    IF Policies(p) = <<>>
    THEN (IF isVertical(p) THEN lineX(p) ELSE lineY(p))
    ELSE (IF isVertical(p) THEN p.width - p.marginX ELSE p.height - p.marginY)

\* let maxPersonLabelRight = lineX / let maxPersonLabelBottom = lineY
PersonMaxStart(p) == IF isVertical(p) THEN lineX(p) ELSE lineY(p)
\* a faulty variant: the direction line written before the caption
SpaceLabelElemsDirectionFirst(p, dims, maxEdge) ==
    LET elems == IF isVertical(p) THEN VSpaceLabel(p, dims, maxEdge)
                 ELSE HSpaceLabel(p, dims, maxEdge)
    IN  [k \in 1..Len(elems) |-> elems[Len(elems) + 1 - k]]

SpaceLabelElems(p, dims, maxEdge) ==
    IF isVertical(p) THEN VSpaceLabel(p, dims, maxEdge) ELSE HSpaceLabel(p, dims, maxEdge)
\* faulty variants: the marker decided by the caption alone, by the direction alone
NeedsMarkerForCaption(p) == HasSpaceLabel(p)
NeedsMarkerForDirection(p) == HasDirection(p)

\* if (spaceLabel && LabelDirection)
NeedsMarker(p) == HasSpaceLabel(p) /\ HasDirection(p)

----------------------------------------------------------------------------
(* createSpatialDiagram2D *)

DotRadius == 8
PolicyArrowLength2D == 10
ArrowSize2D == 3
AxisLabelPadding == 4

HorizontalPolicies(p) ==
    IF Has(p, "horizontalPolicies") THEN p.horizontalPolicies ELSE <<>>
VerticalPolicies(p) ==
    IF Has(p, "verticalPolicies") THEN p.verticalPolicies ELSE <<>>
HorizontalTics(p) ==
    IF Has(p, "horizontalScale") THEN p.horizontalScale.tics ELSE <<>>
VerticalTics(p) ==
    IF Has(p, "verticalScale") THEN p.verticalScale.tics ELSE <<>>
HorizontalScaleLaTeX(p) ==
    IF Has(p, "horizontalScale") THEN OrFalse(p.horizontalScale, "asLaTeX") ELSE FALSE
VerticalScaleLaTeX(p) ==
    IF Has(p, "verticalScale") THEN OrFalse(p.verticalScale, "asLaTeX") ELSE FALSE

leftX(p) == p.marginX
rightX(p) == p.width - p.marginX
topY(p) == p.marginY
bottomY(p) == p.height - p.marginY
centerX(p) == Half(leftX(p) + rightX(p))
\* a faulty variant: half way down to the bottom margin
centerYBelowTop(p) == Half(bottomY(p))
centerY(p) == Half(topY(p) + bottomY(p))
horizontalAxisLength(p) == rightX(p) - leftX(p)
verticalAxisLength(p) == bottomY(p) - topY(p)

Axes2D(p) ==
    <<Line("haxis", 0, leftX(p), centerY(p), rightX(p), centerY(p), 2, <<>>, FALSE),
      Line("vaxis", 0, centerX(p), topY(p), centerX(p), bottomY(p), 2, <<>>, FALSE)>>

HTicMark2D(p, tic, idx) ==
    LET x == leftX(p) + Times(tic.pos, horizontalAxisLength(p)) IN
    Line("htic", idx, x, centerY(p), x, centerY(p) + TicLength, 2, <<>>, FALSE)

HTicLabel2D(p, tic, idx, dims) ==
    LET x == leftX(p) + Times(tic.pos, horizontalAxisLength(p))
        labelX == x - Half(dims.width)
        labelY == centerY(p) + TicLength + TicLabelGap
    IN  ForeignObject("hticLabel", idx, labelX, labelY, dims.width, dims.height,
                      <<>>, LabelHtml(tic.label, HorizontalScaleLaTeX(p)),
                      FontSize(p), "center")

VTicMark2D(p, tic, idx) ==
    LET y == topY(p) + Times(tic.pos, verticalAxisLength(p)) IN
    Line("vtic", idx, centerX(p), y, centerX(p) + TicLength, y, 2, <<>>, FALSE)

VTicLabel2D(p, tic, idx, dims) ==
    LET y == topY(p) + Times(tic.pos, verticalAxisLength(p))
        labelX == centerX(p) + TicLength + TicLabelGap
        labelY == y - Half(dims.height)
    IN  ForeignObject("vticLabel", idx, labelX, labelY, dims.width, dims.height,
                      <<>>, LabelHtml(tic.label, VerticalScaleLaTeX(p)),
                      FontSize(p), "left")

\* a faulty variant: the arrow left out when the label does not fit above the axis
HPolicy2DWhenRoom(p, policy, idx, dims) ==
    LET x == leftX(p) + Times(policy.position, horizontalAxisLength(p))
        useLaTeX == OrFalse(policy, "asLaTeX")
        arrowTopY == centerY(p) - PolicyArrowLength2D
        arrowSize == ArrowSize2D
        labelX == x - Half(dims.width)
        labelY == arrowTopY - dims.height - 2
    IN  (IF labelY >= topY(p)
         THEN <<Line("hpolicyArrow", idx, x, arrowTopY, x, centerY(p), 1, <<>>, FALSE),
                Path("hpolicyHead", idx,
                     <<<<x, centerY(p)>>, <<x - arrowSize, centerY(p) - arrowSize>>,
                       <<x + arrowSize, centerY(p) - arrowSize>>>>)>>
         ELSE <<>>)
        \o <<ForeignObject("hpolicyLabel", idx, labelX, labelY, dims.width,
                           dims.height, policy.label,
                           LabelHtml(policy.label, useLaTeX), FontSize(p), "center")>>

HPolicy2D(p, policy, idx, dims) ==
    LET x == leftX(p) + Times(policy.position, horizontalAxisLength(p))
        useLaTeX == OrFalse(policy, "asLaTeX")
        arrowTopY == centerY(p) - PolicyArrowLength2D
        arrowSize == ArrowSize2D
        labelX == x - Half(dims.width)
        labelY == arrowTopY - dims.height - 2
    IN  <<Line("hpolicyArrow", idx, x, arrowTopY, x, centerY(p), 1, <<>>, FALSE),
          Path("hpolicyHead", idx,
               <<<<x, centerY(p)>>, <<x - arrowSize, centerY(p) - arrowSize>>,
                 <<x + arrowSize, centerY(p) - arrowSize>>>>),
          ForeignObject("hpolicyLabel", idx, labelX, labelY, dims.width, dims.height,
                        policy.label, LabelHtml(policy.label, useLaTeX),
                        FontSize(p), "center")>>

VPolicy2D(p, policy, idx, dims) ==
    LET y == topY(p) + Times(policy.position, verticalAxisLength(p))
        useLaTeX == OrFalse(policy, "asLaTeX")
        arrowLeftX == centerX(p) - PolicyArrowLength2D
        arrowSize == ArrowSize2D
        labelX == arrowLeftX - dims.width - 2
        labelY == y - Half(dims.height)
    IN  <<Line("vpolicyArrow", idx, arrowLeftX, y, centerX(p), y, 1, <<>>, FALSE),
          Path("vpolicyHead", idx,
               <<<<centerX(p), y>>, <<centerX(p) - arrowSize, y - arrowSize>>,
                 <<centerX(p) - arrowSize, y + arrowSize>>>>),
          ForeignObject("vpolicyLabel", idx, labelX, labelY, dims.width, dims.height,
                        policy.label, LabelHtml(policy.label, useLaTeX),
                        FontSize(p), "right")>>

Circle(of, idx, cx, cy, r) ==
    [tag |-> "circle", of |-> of, idx |-> idx, cx |-> cx, cy |-> cy, r |-> r,
     fill |-> "currentColor"]

\* a faulty variant: the guide lines drawn for every person
PersonDot2DAlwaysGuided(p, person, idx) ==
    LET x == leftX(p) + Times(person.x, horizontalAxisLength(p))
        y == topY(p) + Times(person.y, verticalAxisLength(p))
    IN  <<Line("guide", idx, x, y, x, centerY(p), 1, <<>>, TRUE),
          Line("guide", idx, x, y, centerX(p), y, 1, <<>>, TRUE),
          Circle("dot", idx, x, y, DotRadius)>>

\* the guide lines (if person.guides) and the dot, emitted before the label is measured
PersonDot2D(p, person, idx) ==
    LET x == leftX(p) + Times(person.x, horizontalAxisLength(p))
        y == topY(p) + Times(person.y, verticalAxisLength(p))
    IN  (IF OrFalse(person, "guides")
         THEN <<Line("guide", idx, x, y, x, centerY(p), 1, <<>>, TRUE),
                Line("guide", idx, x, y, centerX(p), y, 1, <<>>, TRUE)>>
         ELSE <<>>)
        \o <<Circle("dot", idx, x, y, DotRadius)>>

PersonLabel2D(p, person, idx, dims) ==
    LET x == leftX(p) + Times(person.x, horizontalAxisLength(p))
        y == topY(p) + Times(person.y, verticalAxisLength(p))
        useLaTeX == OrFalse(person, "asLaTeX")
        labelX == x + DotRadius + 0
        labelY == y - DotRadius - 0 - dims.height
    IN  ForeignObject("personLabel2D", idx, labelX, labelY, dims.width, dims.height,
                      person.label, LabelHtml(person.label, useLaTeX),
                      FontSize(p), "left")

\* the axis captions are sized from the margins; they are not measured
HorizontalLabel2D(p) ==
    LET useLaTeX == OrFalse(p.horizontalLabel, "asLaTeX")
        labelWidth == p.marginX - AxisLabelPadding
        labelX == rightX(p) + 2
        labelHeight == verticalAxisLength(p)
        labelY == topY(p)
    IN  ForeignObject("horizontalLabel", 0, labelX, labelY, labelWidth, labelHeight,
                      <<>>, LabelHtml(p.horizontalLabel.label, useLaTeX),
                      FontSize(p), "center")

VerticalLabel2D(p) ==
    LET useLaTeX == OrFalse(p.verticalLabel, "asLaTeX")
        labelHeight == p.marginY - AxisLabelPadding
        labelWidth == horizontalAxisLength(p)
        labelX == leftX(p)
        labelY == 2
    IN  ForeignObject("verticalLabel", 0, labelX, labelY, labelWidth, labelHeight,
                      <<>>, LabelHtml(p.verticalLabel.label, useLaTeX),
                      FontSize(p), "center")

----------------------------------------------------------------------------
(* measureLabel *)

\* tempDiv: the scratch element, with the html and font size it is given
TempDiv(label, fontSize, asLaTeX) ==
    [tag |-> "div", fontSize |-> fontSize, innerHTML |-> LabelHtml(label, asLaTeX)]

\* document.body.removeChild(tempDiv)
RemoveChild(children, child) ==
    LET at == CHOOSE k \in 1..Len(children) : children[k] = child
    IN  SubSeq(children, 1, at - 1) \o SubSeq(children, at + 1, Len(children))

\* The label the statement at pc measures, as the arguments of measureLabel.
MeasureArgs ==
    LET p == props IN
    IF pc = "ticLabel"
    THEN [label |-> Tics(p)[i].label, fontSize |-> FontSize(p), asLaTeX |-> ScaleLaTeX(p)]
    ELSE IF pc = "policies"
    THEN [label |-> Policies(p)[i].label, fontSize |-> FontSize(p),
          asLaTeX |-> OrFalse(Policies(p)[i], "asLaTeX")]
    ELSE IF pc = "persons"
    THEN [label |-> Persons(p)[i].label, fontSize |-> FontSize(p),
          asLaTeX |-> OrFalse(Persons(p)[i], "asLaTeX")]
    ELSE IF pc = "spaceLabel"
    THEN [label |-> p.spaceLabel.label, fontSize |-> FontSize(p),
          asLaTeX |-> OrFalse(p.spaceLabel, "asLaTeX")]
    ELSE IF pc = "hticLabel"
    THEN [label |-> HorizontalTics(p)[i].label, fontSize |-> FontSize(p),
          asLaTeX |-> HorizontalScaleLaTeX(p)]
    ELSE IF pc = "vticLabel"
    THEN [label |-> VerticalTics(p)[i].label, fontSize |-> FontSize(p),
          asLaTeX |-> VerticalScaleLaTeX(p)]
    ELSE IF pc = "hpolicies"
    THEN [label |-> HorizontalPolicies(p)[i].label, fontSize |-> FontSize(p),
          asLaTeX |-> OrFalse(HorizontalPolicies(p)[i], "asLaTeX")]
    ELSE IF pc = "vpolicies"
    THEN [label |-> VerticalPolicies(p)[i].label, fontSize |-> FontSize(p),
          asLaTeX |-> OrFalse(VerticalPolicies(p)[i], "asLaTeX")]
    ELSE [label |-> Persons(p)[i].label, fontSize |-> FontSize(p),
          asLaTeX |-> OrFalse(Persons(p)[i], "asLaTeX")]

\* The statement at pc is a call of measureLabel.
AtMeasureCall ==
    \/ pc \in {"ticLabel", "hticLabel", "vticLabel", "personLabel2D"}
    \/ pc = "policies" /\ i <= Len(Policies(props))
    \/ pc = "persons" /\ i <= Len(Persons(props))
    \/ pc = "spaceLabel" /\ HasSpaceLabel(props)
    \/ pc = "hpolicies" /\ i <= Len(HorizontalPolicies(props))
    \/ pc = "vpolicies" /\ i <= Len(VerticalPolicies(props))

RectKey(args) == <<args.label, args.fontSize, args.asLaTeX>>

\* Sizes the rendering surface may report for a label.
RectSizes == {[width |-> 36, height |-> 76], [width |-> 76, height |-> 36]}

Threw == [status |-> "threw"]
Returned(markup) == [status |-> "returned", markup |-> markup]

\* html = ...; createElement; style; innerHTML; document.body.appendChild(tempDiv)
MeasureAttach ==
    /\ AtMeasureCall
    /\ mpc = "none"
    /\ mpc' = "attached"
    /\ body' = Append(body, TempDiv(MeasureArgs.label, MeasureArgs.fontSize,
                                    MeasureArgs.asLaTeX))
    /\ measureCalls' = measureCalls + 1
    /\ UNCHANGED <<callee, props, pc, i, svg, maxPersonLabel, labelDims, rendered,
                   returned, callsLeft>>

\* katex.renderToString throws: nothing was attached yet
MeasureRenderThrows ==
    /\ AtMeasureCall
    /\ mpc = "none"
    /\ MeasureArgs.asLaTeX
    /\ pc' = "thrown"
    /\ measureCalls' = measureCalls + 1
    /\ returned' = Append(returned, Threw)
    /\ UNCHANGED <<callee, props, i, svg, maxPersonLabel, mpc, labelDims, body,
                   rendered, callsLeft>>

\* const rect = tempDiv.getBoundingClientRect(): the surface answers the same for
\* the same label, font size and flag
MeasureRect ==
    /\ mpc = "attached"
    /\ pc # "thrown"
    /\ LET key == RectKey(MeasureArgs) IN
       \E rect \in RectSizes :
          /\ key \in DOMAIN rendered => rect = rendered[key]
          /\ rendered' = IF key \in DOMAIN rendered THEN rendered
                         ELSE rendered @@ (key :> rect)
          /\ labelDims' = rect
    /\ mpc' = "measured"
    /\ UNCHANGED <<callee, props, pc, i, svg, maxPersonLabel, body, returned,
                   callsLeft, measureCalls>>

\* a faulty variant: the exception is caught and the label measured again
MeasureRectThrowsRetried ==
    /\ mpc = "attached"
    /\ pc # "thrown"
    /\ mpc' = "none"
    /\ UNCHANGED <<callee, props, pc, i, svg, maxPersonLabel, labelDims, body,
                   rendered, returned, callsLeft, measureCalls>>

\* getBoundingClientRect throws: the exception leaves measureLabel and the caller
MeasureRectThrows ==
    /\ mpc = "attached"
    /\ pc # "thrown"
    /\ pc' = "thrown"
    /\ returned' = Append(returned, Threw)
    /\ UNCHANGED <<callee, props, i, svg, maxPersonLabel, mpc, labelDims, body,
                   rendered, callsLeft, measureCalls>>

\* a faulty variant: the size returned with the scratch element left attached
MeasureDetachForgotten ==
    /\ mpc = "measured"
    /\ mpc' = "returned"
    /\ UNCHANGED <<callee, props, pc, i, svg, maxPersonLabel, labelDims, body,
                   rendered, returned, callsLeft, measureCalls>>

\* document.body.removeChild(tempDiv); return { width, height }
MeasureDetach ==
    /\ mpc = "measured"
    /\ mpc' = "returned"
    /\ body' = RemoveChild(body, TempDiv(MeasureArgs.label, MeasureArgs.fontSize,
                                         MeasureArgs.asLaTeX))
    /\ UNCHANGED <<callee, props, pc, i, svg, maxPersonLabel, labelDims, rendered,
                   returned, callsLeft, measureCalls>>

----------------------------------------------------------------------------
(* The caller: a call of createSpatialDiagram or createSpatialDiagram2D *)

\* a faulty variant: svgContent kept across calls instead of started afresh
CallKeepingMarkup ==
    /\ pc \in {"idle", "done", "thrown"}
    /\ callsLeft > 0
    /\ callsLeft' = callsLeft - 1
    /\ pc' = "axis"
    /\ svg' = Append(svg, OpenTag(props))
    /\ i' = 1
    /\ maxPersonLabel' = 0
    /\ mpc' = "none"
    /\ labelDims' = [width |-> 0, height |-> 0]
    /\ measureCalls' = 0
    /\ UNCHANGED <<callee, props, body, rendered, returned>>

\* const { ... } = props; let svgContent = `<svg id=... width=... height=...>`
Call ==
    /\ pc \in {"idle", "done", "thrown"}
    /\ callsLeft > 0
    /\ callsLeft' = callsLeft - 1
    /\ pc' = "axis"
    /\ svg' = <<OpenTag(props)>>
    /\ i' = 1
    /\ maxPersonLabel' = 0
    /\ mpc' = "none"
    /\ labelDims' = [width |-> 0, height |-> 0]
    /\ measureCalls' = 0
    /\ UNCHANGED <<callee, props, body, rendered, returned>>

----------------------------------------------------------------------------
(* createSpatialDiagram, statement by statement *)

Is1D == callee = "createSpatialDiagram"

\* svgContent += `<line .../>` (the axis)
DrawAxis ==
    /\ Is1D
    /\ pc = "axis"
    /\ svg' = Append(svg, Axis(props))
    /\ pc' = "tics"
    /\ i' = 1
    /\ UNCHANGED <<callee, props, maxPersonLabel, mpc, labelDims, body, rendered,
                   returned, callsLeft, measureCalls>>

\* for (const tic of scale.tics): the tic mark
DrawTicMark ==
    /\ pc = "tics"
    /\ i <= Len(Tics(props))
    /\ svg' = Append(svg, TicMark(props, Tics(props)[i], i))
    /\ IF TicHasLabel(Tics(props)[i])
       THEN pc' = "ticLabel" /\ i' = i
       ELSE pc' = "tics" /\ i' = i + 1
    /\ UNCHANGED <<callee, props, maxPersonLabel, mpc, labelDims, body, rendered,
                   returned, callsLeft, measureCalls>>

\* if (tic.label) { measureLabel(...); svgContent += `<foreignObject ...>` }
DrawTicLabel ==
    /\ pc = "ticLabel"
    /\ mpc = "returned"
    /\ svg' = Append(svg, TicLabel(props, Tics(props)[i], i, labelDims))
    /\ pc' = "tics"
    /\ i' = i + 1
    /\ mpc' = "none"
    /\ UNCHANGED <<callee, props, maxPersonLabel, labelDims, body, rendered,
                   returned, callsLeft, measureCalls>>

\* the tic loop ends (or there is no scale)
TicsDone ==
    /\ pc = "tics"
    /\ i > Len(Tics(props))
    /\ pc' = "policies"
    /\ i' = 1
    /\ UNCHANGED <<callee, props, svg, maxPersonLabel, mpc, labelDims, body,
                   rendered, returned, callsLeft, measureCalls>>

\* for (const policy of policies): arrow (if its length is positive) and label
DrawPolicy ==
    /\ pc = "policies"
    /\ mpc = "returned"
    /\ svg' = svg \o PolicyElems(props, Policies(props)[i], i, labelDims)
    /\ i' = i + 1
    /\ mpc' = "none"
    /\ UNCHANGED <<callee, props, pc, maxPersonLabel, labelDims, body, rendered,
                   returned, callsLeft, measureCalls>>

\* the policy loop ends; let maxPersonLabelBottom = lineY (maxPersonLabelRight = lineX)
PoliciesDone ==
    /\ pc = "policies"
    /\ i > Len(Policies(props))
    /\ pc' = "persons"
    /\ i' = 1
    /\ maxPersonLabel' = PersonMaxStart(props)
    /\ UNCHANGED <<callee, props, svg, mpc, labelDims, body, rendered, returned,
                   callsLeft, measureCalls>>

\* for (const person of persons): arrow (if its length is positive), label, running max
DrawPerson ==
    /\ pc = "persons"
    /\ mpc = "returned"
    /\ svg' = svg \o PersonElems(props, Persons(props)[i], i, labelDims)
    /\ maxPersonLabel' = PersonMax(props, labelDims, maxPersonLabel)
    /\ i' = i + 1
    /\ mpc' = "none"
    /\ UNCHANGED <<callee, props, pc, labelDims, body, rendered, returned,
                   callsLeft, measureCalls>>

\* the person loop ends
PersonsDone ==
    /\ pc = "persons"
    /\ i > Len(Persons(props))
    /\ pc' = "spaceLabel"
    /\ UNCHANGED <<callee, props, i, svg, maxPersonLabel, mpc, labelDims, body,
                   rendered, returned, callsLeft, measureCalls>>

\* if (spaceLabel) { caption; if (LabelDirection) { direction line } }
DrawSpaceLabel ==
    /\ pc = "spaceLabel"
    /\ mpc = "returned"
    /\ svg' = svg \o SpaceLabelElems(props, labelDims, maxPersonLabel)
    /\ pc' = "marker"
    /\ mpc' = "none"
    /\ UNCHANGED <<callee, props, i, maxPersonLabel, labelDims, body, rendered,
                   returned, callsLeft, measureCalls>>

\* no spaceLabel
SkipSpaceLabel ==
    /\ pc = "spaceLabel"
    /\ ~HasSpaceLabel(props)
    /\ pc' = "marker"
    /\ UNCHANGED <<callee, props, i, svg, maxPersonLabel, mpc, labelDims, body,
                   rendered, returned, callsLeft, measureCalls>>

\* if (spaceLabel && LabelDirection) svgContent += `<defs><marker .../></defs>`
DrawMarker ==
    /\ pc = "marker"
    /\ NeedsMarker(props)
    /\ svg' = Append(svg, MarkerDef(props))
    /\ pc' = "close"
    /\ UNCHANGED <<callee, props, i, maxPersonLabel, mpc, labelDims, body, rendered,
                   returned, callsLeft, measureCalls>>

\* svgContent += '</svg>'; return svgContent
Return ==
    /\ pc \in {"marker", "close"}
    /\ pc = "marker" => ~NeedsMarker(props)
    /\ svg' = Append(svg, CloseTag)
    /\ pc' = "done"
    /\ returned' = Append(returned, Returned(svg'))
    /\ UNCHANGED <<callee, props, i, maxPersonLabel, mpc, labelDims, body, rendered,
                   callsLeft, measureCalls>>

----------------------------------------------------------------------------
(* createSpatialDiagram2D, statement by statement *)

Is2D == callee = "createSpatialDiagram2D"

\* the horizontal and the vertical axis
DrawAxes2D ==
    /\ Is2D
    /\ pc = "axis"
    /\ svg' = svg \o Axes2D(props)
    /\ pc' = "htics"
    /\ i' = 1
    /\ UNCHANGED <<callee, props, maxPersonLabel, mpc, labelDims, body, rendered,
                   returned, callsLeft, measureCalls>>

DrawHTicMark2D ==
    /\ pc = "htics"
    /\ i <= Len(HorizontalTics(props))
    /\ svg' = Append(svg, HTicMark2D(props, HorizontalTics(props)[i], i))
    /\ IF TicHasLabel(HorizontalTics(props)[i])
       THEN pc' = "hticLabel" /\ i' = i
       ELSE pc' = "htics" /\ i' = i + 1
    /\ UNCHANGED <<callee, props, maxPersonLabel, mpc, labelDims, body, rendered,
                   returned, callsLeft, measureCalls>>

DrawHTicLabel2D ==
    /\ pc = "hticLabel"
    /\ mpc = "returned"
    /\ svg' = Append(svg, HTicLabel2D(props, HorizontalTics(props)[i], i, labelDims))
    /\ pc' = "htics"
    /\ i' = i + 1
    /\ mpc' = "none"
    /\ UNCHANGED <<callee, props, maxPersonLabel, labelDims, body, rendered,
                   returned, callsLeft, measureCalls>>

HTicsDone2D ==
    /\ pc = "htics"
    /\ i > Len(HorizontalTics(props))
    /\ pc' = "vtics"
    /\ i' = 1
    /\ UNCHANGED <<callee, props, svg, maxPersonLabel, mpc, labelDims, body,
                   rendered, returned, callsLeft, measureCalls>>

DrawVTicMark2D ==
    /\ pc = "vtics"
    /\ i <= Len(VerticalTics(props))
    /\ svg' = Append(svg, VTicMark2D(props, VerticalTics(props)[i], i))
    /\ IF TicHasLabel(VerticalTics(props)[i])
       THEN pc' = "vticLabel" /\ i' = i
       ELSE pc' = "vtics" /\ i' = i + 1
    /\ UNCHANGED <<callee, props, maxPersonLabel, mpc, labelDims, body, rendered,
                   returned, callsLeft, measureCalls>>

DrawVTicLabel2D ==
    /\ pc = "vticLabel"
    /\ mpc = "returned"
    /\ svg' = Append(svg, VTicLabel2D(props, VerticalTics(props)[i], i, labelDims))
    /\ pc' = "vtics"
    /\ i' = i + 1
    /\ mpc' = "none"
    /\ UNCHANGED <<callee, props, maxPersonLabel, labelDims, body, rendered,
                   returned, callsLeft, measureCalls>>

VTicsDone2D ==
    /\ pc = "vtics"
    /\ i > Len(VerticalTics(props))
    /\ pc' = "hpolicies"
    /\ i' = 1
    /\ UNCHANGED <<callee, props, svg, maxPersonLabel, mpc, labelDims, body,
                   rendered, returned, callsLeft, measureCalls>>

DrawHPolicy2D ==
    /\ pc = "hpolicies"
    /\ mpc = "returned"
    /\ svg' = svg \o HPolicy2D(props, HorizontalPolicies(props)[i], i, labelDims)
    /\ i' = i + 1
    /\ mpc' = "none"
    /\ UNCHANGED <<callee, props, pc, maxPersonLabel, labelDims, body, rendered,
                   returned, callsLeft, measureCalls>>

HPoliciesDone2D ==
    /\ pc = "hpolicies"
    /\ i > Len(HorizontalPolicies(props))
    /\ pc' = "vpolicies"
    /\ i' = 1
    /\ UNCHANGED <<callee, props, svg, maxPersonLabel, mpc, labelDims, body,
                   rendered, returned, callsLeft, measureCalls>>

DrawVPolicy2D ==
    /\ pc = "vpolicies"
    /\ mpc = "returned"
    /\ svg' = svg \o VPolicy2D(props, VerticalPolicies(props)[i], i, labelDims)
    /\ i' = i + 1
    /\ mpc' = "none"
    /\ UNCHANGED <<callee, props, pc, maxPersonLabel, labelDims, body, rendered,
                   returned, callsLeft, measureCalls>>

VPoliciesDone2D ==
    /\ pc = "vpolicies"
    /\ i > Len(VerticalPolicies(props))
    /\ pc' = "persons2D"
    /\ i' = 1
    /\ UNCHANGED <<callee, props, svg, maxPersonLabel, mpc, labelDims, body,
                   rendered, returned, callsLeft, measureCalls>>

\* for (const person of persons): guide lines and dot
DrawPersonDot2D ==
    /\ pc = "persons2D"
    /\ i <= Len(Persons(props))
    /\ svg' = svg \o PersonDot2D(props, Persons(props)[i], i)
    /\ pc' = "personLabel2D"
    /\ UNCHANGED <<callee, props, i, maxPersonLabel, mpc, labelDims, body, rendered,
                   returned, callsLeft, measureCalls>>

\* ... then the measured label
DrawPersonLabel2D ==
    /\ pc = "personLabel2D"
    /\ mpc = "returned"
    /\ svg' = Append(svg, PersonLabel2D(props, Persons(props)[i], i, labelDims))
    /\ pc' = "persons2D"
    /\ i' = i + 1
    /\ mpc' = "none"
    /\ UNCHANGED <<callee, props, maxPersonLabel, labelDims, body, rendered,
                   returned, callsLeft, measureCalls>>

\* the person loop ends; if (horizontalLabel) ...; if (verticalLabel) ...;
\* svgContent += '</svg>'; return svgContent
Return2D ==
    /\ pc = "persons2D"
    /\ i > Len(Persons(props))
    /\ svg' = svg
              \o (IF Has(props, "horizontalLabel")
                  THEN <<HorizontalLabel2D(props)>> ELSE <<>>)
              \o (IF Has(props, "verticalLabel")
                  THEN <<VerticalLabel2D(props)>> ELSE <<>>)
              \o <<CloseTag>>
    /\ pc' = "done"
    /\ returned' = Append(returned, Returned(svg'))
    /\ UNCHANGED <<callee, props, i, maxPersonLabel, mpc, labelDims, body, rendered,
                   callsLeft, measureCalls>>

----------------------------------------------------------------------------
(* The inputs the caller draws from *)

Positions == {Frac(0, 1), Frac(1, 2), Frac(1, 1)}

\* (x, y) of a 2D person: the points with x + y = 1
Positions2D ==
    {xy \in Positions \X Positions :
        xy[1].num * xy[2].den + xy[2].num * xy[1].den = xy[1].den * xy[2].den}

\* width > 2*marginX and height > 2*marginY; one canvas is the other turned
Landscape == [width |-> 200, height |-> 100, marginX |-> 19, marginY |-> 9]
Portrait == [width |-> 100, height |-> 200, marginX |-> 9, marginY |-> 19]
Geometries == {Landscape, Portrait}

\* the slide of the animation note: createSpatialDiagram({width: 900, height: 150,
\* marginX: 40, marginY: 10, ...})
ExampleGeometry == [width |-> 900, height |-> 150, marginX |-> 40, marginY |-> 10]

Orientations == {"horizontal", "vertical"}
Directions == {"left", "right", "up", "down"}
NoDirection == "none"

PersonLabel(k) ==
    IF k = 1 THEN [label |-> "K"]
    ELSE IF k = 2 THEN [label |-> "x_1", asLaTeX |-> TRUE]
    ELSE [label |-> "M", asLaTeX |-> FALSE]

PolicyLabel(k) ==
    IF k = 1 THEN [label |-> "K"]
    ELSE IF k = 2 THEN [label |-> "y^2", asLaTeX |-> TRUE]
    ELSE [label |-> "Z", asLaTeX |-> FALSE]

TicText(k) == IF k = 1 THEN "0" ELSE IF k = 2 THEN "1/2" ELSE "1"

NoFields == [f \in {} |-> TRUE]
Opt(present, fields) == IF present THEN fields ELSE NoFields

MkPersons(positions) ==
    [k \in 1..Len(positions) |-> PersonLabel(k) @@ [position |-> positions[k]]]
MkPolicies(positions) ==
    [k \in 1..Len(positions) |-> PolicyLabel(k) @@ [position |-> positions[k]]]
\* a tic is <<pos, labelled>>
MkTics(tics) ==
    [k \in 1..Len(tics) |->
        IF tics[k][2] THEN [pos |-> tics[k][1], label |-> TicText(k)]
        ELSE [pos |-> tics[k][1]]]
\* a 2D person is <<<<x, y>>, guides>>
MkPersons2D(persons) ==
    [k \in 1..Len(persons) |->
        PersonLabel(k) @@ [x |-> persons[k][1][1], y |-> persons[k][1][2]]
        @@ Opt(persons[k][2], [guides |-> TRUE])]

Lengths(kinds, n) ==
    {len \in [1..kinds -> 0..n] :
        LET Sum[k \in 0..kinds] == IF k = 0 THEN 0 ELSE Sum[k - 1] + len[k]
        IN  Sum[kinds] <= n}

Props1D(geometry, orientation, persons, policies, tics, caption, direction) ==
    geometry
    @@ [id |-> "spatial-0", orientation |-> orientation]
    @@ Opt(persons # <<>>, [persons |-> MkPersons(persons)])
    @@ Opt(policies # <<>>, [policies |-> MkPolicies(policies)])
    @@ Opt(tics # <<>>, [scale |-> [tics |-> MkTics(tics)]])
    @@ Opt(caption, [spaceLabel |-> [label |-> "Left-Right"]])
    @@ Opt(direction # NoDirection, [LabelDirection |-> direction])

\* createSpatialDiagram inputs with at most n tics + policies + persons
Inputs1D(geometries, n) ==
    UNION {
        {Props1D(g, o, ps, qs, ts, cap, dir) :
            g \in geometries, o \in Orientations,
            ps \in [1..len[1] -> Positions], qs \in [1..len[2] -> Positions],
            ts \in [1..len[3] -> Positions \X BOOLEAN],
            cap \in BOOLEAN, dir \in Directions \cup {NoDirection}}
        : len \in Lengths(3, n)}

Props2D(geometry, persons, hpolicies, vpolicies, htics, vtics, hlabel, vlabel) ==
    geometry
    @@ [id |-> "spatial2d-0"]
    @@ Opt(persons # <<>>, [persons |-> MkPersons2D(persons)])
    @@ Opt(hpolicies # <<>>, [horizontalPolicies |-> MkPolicies(hpolicies)])
    @@ Opt(vpolicies # <<>>, [verticalPolicies |-> MkPolicies(vpolicies)])
    @@ Opt(htics # <<>>, [horizontalScale |-> [tics |-> MkTics(htics)]])
    @@ Opt(vtics # <<>>, [verticalScale |-> [tics |-> MkTics(vtics), asLaTeX |-> TRUE]])
    @@ Opt(hlabel, [horizontalLabel |-> [label |-> "Economic"]])
    @@ Opt(vlabel, [verticalLabel |-> [label |-> "\\text{Social}", asLaTeX |-> TRUE]])

Inputs2D(geometries, n) ==
    UNION {
        {Props2D(g, ps, hq, vq, ht, vt, hl, vl) :
            g \in geometries,
            ps \in [1..len[1] -> Positions2D \X BOOLEAN],
            hq \in [1..len[2] -> Positions], vq \in [1..len[3] -> Positions],
            ht \in [1..len[4] -> Positions \X BOOLEAN],
            vt \in [1..len[5] -> Positions \X BOOLEAN],
            hl \in BOOLEAN, vl \in BOOLEAN}
        : len \in Lengths(5, n)}

----------------------------------------------------------------------------
(* The state machine *)

InitCall(inputs1D, inputs2D, calls) ==
    /\ \/ callee = "createSpatialDiagram" /\ props \in inputs1D
       \/ callee = "createSpatialDiagram2D" /\ props \in inputs2D
    /\ pc = "idle"
    /\ i = 1
    /\ svg = <<>>
    /\ maxPersonLabel = 0
    /\ mpc = "none"
    /\ labelDims = [width |-> 0, height |-> 0]
    /\ body = <<>>
    /\ rendered = NoFields
    /\ returned = <<>>
    /\ callsLeft = calls
    /\ measureCalls = 0

\* one call on any input
Init == InitCall(Inputs1D(Geometries, MaxPoints), Inputs2D({Landscape}, MaxPoints), 1)

Next ==
    \/ Call
    \/ MeasureAttach
    \/ MeasureRenderThrows
    \/ MeasureRect
    \/ MeasureRectThrows
    \/ MeasureDetach
    \/ DrawAxis
    \/ DrawTicMark
    \/ DrawTicLabel
    \/ TicsDone
    \/ DrawPolicy
    \/ PoliciesDone
    \/ DrawPerson
    \/ PersonsDone
    \/ DrawSpaceLabel
    \/ SkipSpaceLabel
    \/ DrawMarker
    \/ Return
    \/ DrawAxes2D
    \/ DrawHTicMark2D
    \/ DrawHTicLabel2D
    \/ HTicsDone2D
    \/ DrawVTicMark2D
    \/ DrawVTicLabel2D
    \/ VTicsDone2D
    \/ DrawHPolicy2D
    \/ HPoliciesDone2D
    \/ DrawVPolicy2D
    \/ VPoliciesDone2D
    \/ DrawPersonDot2D
    \/ DrawPersonLabel2D
    \/ Return2D

Spec == Init /\ [][Next]_vars

\* the same input generated twice
InitTwice ==
    InitCall(Inputs1D(Geometries, MaxPointsTwice), Inputs2D({Landscape}, MaxPointsTwice), 2)

SpecTwice == InitTwice /\ [][Next]_vars

\* the slide of the animation note: one person at position 0.5 on the 900x150 canvas
InitExample ==
    InitCall({p \in Inputs1D({ExampleGeometry}, MaxPoints) :
                 /\ Len(Persons(p)) = 1
                 /\ Persons(p)[1].position = Frac(1, 2)},
             Inputs2D({ExampleGeometry}, MaxPointsTwice), 1)

SpecExample == InitExample /\ [][Next]_vars

----------------------------------------------------------------------------
(* The functions as a whole: the markup of one call that returns, given the  *)
(* sizes the rendering surface reports (surface[<<label, fontSize, asLaTeX>>]) *)

Rect(surface, label, fontSize, asLaTeX) == surface[<<label, fontSize, asLaTeX>>]

RenderTics(p, surface) ==
    LET tics == Tics(p)
        R[k \in 0..Len(tics)] ==
            IF k = 0 THEN <<>>
            ELSE R[k - 1] \o <<TicMark(p, tics[k], k)>>
                 \o (IF TicHasLabel(tics[k])
                     THEN <<TicLabel(p, tics[k], k,
                                     Rect(surface, tics[k].label, FontSize(p),
                                          ScaleLaTeX(p)))>>
                     ELSE <<>>)
    IN  R[Len(tics)]

RenderPolicies(p, surface) ==
    LET policies == Policies(p)
        R[k \in 0..Len(policies)] ==
            IF k = 0 THEN <<>>
            ELSE R[k - 1]
                 \o PolicyElems(p, policies[k], k,
                                Rect(surface, policies[k].label, FontSize(p),
                                     OrFalse(policies[k], "asLaTeX")))
    IN  R[Len(policies)]

RenderPersons(p, surface) ==
    LET persons == Persons(p)
        R[k \in 0..Len(persons)] ==
            IF k = 0 THEN <<>>
            ELSE R[k - 1]
                 \o PersonElems(p, persons[k], k,
                                Rect(surface, persons[k].label, FontSize(p),
                                     OrFalse(persons[k], "asLaTeX")))
    IN  R[Len(persons)]

RenderPersonMax(p, surface) ==
    LET persons == Persons(p)
        M[k \in 0..Len(persons)] ==
            IF k = 0 THEN PersonMaxStart(p)
            ELSE PersonMax(p, Rect(surface, persons[k].label, FontSize(p),
                                   OrFalse(persons[k], "asLaTeX")), M[k - 1])
    IN  M[Len(persons)]

Render1D(p, surface) ==
    <<OpenTag(p), Axis(p)>>
    \o RenderTics(p, surface)
    \o RenderPolicies(p, surface)
    \o RenderPersons(p, surface)
    \o (IF HasSpaceLabel(p)
        THEN SpaceLabelElems(p, Rect(surface, p.spaceLabel.label, FontSize(p),
                                     OrFalse(p.spaceLabel, "asLaTeX")),
                             RenderPersonMax(p, surface))
        ELSE <<>>)
    \o (IF NeedsMarker(p) THEN <<MarkerDef(p)>> ELSE <<>>)
    \o <<CloseTag>>

Render2D(p, surface) ==
    LET ht == HorizontalTics(p)
        vt == VerticalTics(p)
        hq == HorizontalPolicies(p)
        vq == VerticalPolicies(p)
        ps == Persons(p)
        HT[k \in 0..Len(ht)] ==
            IF k = 0 THEN <<>>
            ELSE HT[k - 1] \o <<HTicMark2D(p, ht[k], k)>>
                 \o (IF TicHasLabel(ht[k])
                     THEN <<HTicLabel2D(p, ht[k], k,
                                        Rect(surface, ht[k].label, FontSize(p),
                                             HorizontalScaleLaTeX(p)))>>
                     ELSE <<>>)
        VT[k \in 0..Len(vt)] ==
            IF k = 0 THEN <<>>
            ELSE VT[k - 1] \o <<VTicMark2D(p, vt[k], k)>>
                 \o (IF TicHasLabel(vt[k])
                     THEN <<VTicLabel2D(p, vt[k], k,
                                        Rect(surface, vt[k].label, FontSize(p),
                                             VerticalScaleLaTeX(p)))>>
                     ELSE <<>>)
        HQ[k \in 0..Len(hq)] ==
            IF k = 0 THEN <<>>
            ELSE HQ[k - 1]
                 \o HPolicy2D(p, hq[k], k,
                              Rect(surface, hq[k].label, FontSize(p),
                                   OrFalse(hq[k], "asLaTeX")))
        VQ[k \in 0..Len(vq)] ==
            IF k = 0 THEN <<>>
            ELSE VQ[k - 1]
                 \o VPolicy2D(p, vq[k], k,
                              Rect(surface, vq[k].label, FontSize(p),
                                   OrFalse(vq[k], "asLaTeX")))
        PS[k \in 0..Len(ps)] ==
            IF k = 0 THEN <<>>
            ELSE PS[k - 1] \o PersonDot2D(p, ps[k], k)
                 \o <<PersonLabel2D(p, ps[k], k,
                                    Rect(surface, ps[k].label, FontSize(p),
                                         OrFalse(ps[k], "asLaTeX")))>>
    IN  <<OpenTag(p)>> \o Axes2D(p)
        \o HT[Len(ht)] \o VT[Len(vt)] \o HQ[Len(hq)] \o VQ[Len(vq)] \o PS[Len(ps)]
        \o (IF Has(p, "horizontalLabel") THEN <<HorizontalLabel2D(p)>> ELSE <<>>)
        \o (IF Has(p, "verticalLabel") THEN <<VerticalLabel2D(p)>> ELSE <<>>)
        \o <<CloseTag>>

Render(fn, p, surface) ==
    IF fn = "createSpatialDiagram" THEN Render1D(p, surface) ELSE Render2D(p, surface)

\* The statement-by-statement run and the function as a whole agree.
RenderAgrees == pc = "done" => svg = Render(callee, props, rendered)

----------------------------------------------------------------------------
(* Reading the markup *)

Indices == 1..Len(svg)

Count(S) == Cardinality(S)

\* indices of the elements with a tag / emitted by a statement / for an array index
Tagged(tag) == {k \in Indices : svg[k].tag = tag}
Emitted(of) == {k \in Indices : svg[k].of = of}
EmittedFor(of, idx) == {k \in Indices : svg[k].of = of /\ svg[k].idx = idx}

ValidMargins(p) == p.width > 2 * p.marginX /\ p.height > 2 * p.marginY
InUnit(position) == 0 <= position.num /\ position.num <= position.den

\* where an element sits along the x axis (axis = 1) or the y axis (axis = 2):
\* a line or path by its first point, a label box by its centre, a dot by its centre
Along(e, axis) ==
    IF e.tag = "line" THEN (IF axis = 1 THEN e.x1 ELSE e.y1)
    ELSE IF e.tag = "path" THEN e.points[1][axis]
    ELSE IF e.tag = "circle" THEN (IF axis = 1 THEN e.cx ELSE e.cy)
    ELSE (IF axis = 1 THEN e.x + Half(e.width) ELSE e.y + Half(e.height))

\* a tic mark or an arrow line is perpendicular to its axis
Perpendicular(e, axis) ==
    e.tag = "line" => (IF axis = 1 THEN e.x1 = e.x2 ELSE e.y1 = e.y2)

\* marginStart + position * (canvasExtent - 2*margin), inside the axis
OnAxis(coordinate, position, margin, extent) ==
    /\ coordinate * position.den
         = margin * position.den + position.num * (extent - 2 * margin)
    /\ margin <= coordinate
    /\ coordinate <= margin + (extent - 2 * margin)

\* the position an element of the 1D diagram was given, if it is a point's or a tic's
Position1D(e) ==
    IF e.of \in {"tic", "ticLabel"} THEN Tics(props)[e.idx].pos
    ELSE IF e.of \in {"policyArrow", "policyHead", "policyLabel"}
    THEN Policies(props)[e.idx].position
    ELSE Persons(props)[e.idx].position

PointRoles1D ==
    {"tic", "ticLabel", "policyArrow", "policyHead", "policyLabel",
     "personArrow", "personHead", "personLabel"}
HorizontalRoles2D == {"htic", "hticLabel", "hpolicyArrow", "hpolicyHead", "hpolicyLabel"}
VerticalRoles2D == {"vtic", "vticLabel", "vpolicyArrow", "vpolicyHead", "vpolicyLabel"}

PositionH2D(e) ==
    IF e.of \in {"htic", "hticLabel"} THEN HorizontalTics(props)[e.idx].pos
    ELSE HorizontalPolicies(props)[e.idx].position
PositionV2D(e) ==
    IF e.of \in {"vtic", "vticLabel"} THEN VerticalTics(props)[e.idx].pos
    ELSE VerticalPolicies(props)[e.idx].position

----------------------------------------------------------------------------
(* C1 *)

C1_Holds1D(e) ==
    LET axis == IF props.orientation = "vertical" THEN 2 ELSE 1
        margin == IF axis = 1 THEN props.marginX ELSE props.marginY
        extent == IF axis = 1 THEN props.width ELSE props.height
    IN  InUnit(Position1D(e)) =>
            /\ OnAxis(Along(e, axis), Position1D(e), margin, extent)
            /\ Perpendicular(e, axis)

C1_Holds2D(e) ==
    /\ e.of \in HorizontalRoles2D /\ InUnit(PositionH2D(e)) =>
          /\ OnAxis(Along(e, 1), PositionH2D(e), props.marginX, props.width)
          /\ e.of \in {"htic", "hpolicyArrow"} => Perpendicular(e, 1)
    /\ e.of \in VerticalRoles2D /\ InUnit(PositionV2D(e)) =>
          /\ OnAxis(Along(e, 2), PositionV2D(e), props.marginY, props.height)
          /\ e.of \in {"vtic", "vpolicyArrow"} => Perpendicular(e, 2)
    /\ e.of \in {"dot", "guide"}
       /\ InUnit(Persons(props)[e.idx].x) /\ InUnit(Persons(props)[e.idx].y) =>
          /\ OnAxis(Along(e, 1), Persons(props)[e.idx].x, props.marginX, props.width)
          /\ OnAxis(Along(e, 2), Persons(props)[e.idx].y, props.marginY, props.height)

\* C1: with valid margins, every tic, policy and person with a position in [0,1] is
\* emitted at marginStart + position * (canvasExtent - 2*margin) along its axis, which
\* lies in [marginStart, marginStart + axisLength]; in both orientations of
\* createSpatialDiagram and on both axes of createSpatialDiagram2D.
C1_CoordinateOnAxis ==
    ValidMargins(props) =>
        \A k \in Indices :
            /\ Is1D /\ svg[k].of \in PointRoles1D => C1_Holds1D(svg[k])
            /\ Is2D => C1_Holds2D(svg[k])

\* a vertical diagram whose person at 1/2 got its arrow, and a returned 2D diagram
\* is covered by the same runs (C1_Witness2D)
C1_Witness ==
    /\ Is1D /\ pc = "done" /\ props.orientation = "vertical" /\ ValidMargins(props)
    /\ \E k \in Emitted("personHead") :
          /\ Persons(props)[svg[k].idx].position = Frac(1, 2)
          /\ svg[k].points[1][2] = props.marginY + Half(props.height - 2 * props.marginY)
    /\ Emitted("tic") # {}

C1_Witness2D ==
    /\ Is2D /\ pc = "done"
    /\ \E k \in Emitted("dot") : svg[k].cx # svg[k].cy
    /\ Emitted("vpolicyHead") # {}

----------------------------------------------------------------------------
(* C2 *)

\* C2: whenever measureLabel has been left, by returning or by throwing, no scratch
\* element it attached is still a child of document.body.
C2_ScratchAlwaysRemoved ==
    (mpc = "returned" \/ pc \in {"done", "thrown"}) => body = <<>>

----------------------------------------------------------------------------
(* C3 *)

\* C3: the markup createSpatialDiagram returns holds exactly one marker definition
\* with id arrowhead-<id> when spaceLabel and LabelDirection are both supplied, and
\* no marker definition otherwise.
C3_MarkerIffCaptionAndDirection ==
    Is1D /\ pc = "done" =>
        LET markers == {k \in Tagged("marker") : svg[k].id = <<"arrowhead-", props.id>>}
        IN  /\ Count(Tagged("marker")) = Count(markers)
            /\ IF Has(props, "spaceLabel") /\ Has(props, "LabelDirection")
               THEN Count(markers) = 1
               ELSE Count(markers) = 0

C3_Witness ==
    /\ Is1D /\ pc = "done" /\ props.orientation = "vertical"
    /\ Has(props, "spaceLabel") /\ Has(props, "LabelDirection")
    /\ Count(Tagged("marker")) = 1

----------------------------------------------------------------------------
(* C4 *)

\* the lines that carry marker-end="url(#arrowhead-<id>)"
DirectionLines == {k \in Tagged("line") : svg[k].markerEnd = MarkerUrl(props)}

\* the vector from (x1, y1) to (x2, y2) is `length` long in the given direction
PointsTo(e, direction, length) ==
    IF direction = "right" THEN e.x2 = e.x1 + length /\ e.y2 = e.y1
    ELSE IF direction = "left" THEN e.x2 = e.x1 - length /\ e.y2 = e.y1
    ELSE IF direction = "down" THEN e.y2 = e.y1 + length /\ e.x2 = e.x1
    ELSE e.y2 = e.y1 - length /\ e.x2 = e.x1

\* C4: in either orientation and for each LabelDirection of left, right, up, down,
\* a diagram with spaceLabel and LabelDirection holds exactly one 40px line with
\* marker-end=url(#arrowhead-<id>), whose start-to-end vector points in the
\* requested direction.
C4_DirectionLineAsRequested ==
    Is1D /\ pc = "done" /\ HasSpaceLabel(props) /\ HasDirection(props) =>
        /\ Count(DirectionLines) = 1
        /\ \A k \in DirectionLines :
              PointsTo(svg[k], props.LabelDirection, DirectionArrowLength)

----------------------------------------------------------------------------
(* C5 *)

AxisLine == svg[CHOOSE k \in Indices : svg[k].of = "axis"]

\* the arrow length the label box leaves: from the axis to the label's near edge,
\* less the spacing
ArrowLengthOf(label) ==
    IF props.orientation = "vertical"
    THEN IF label.of = "personLabel"
         THEN AxisLine.x1 - (label.x + label.width + LabelGap)
         ELSE (label.x - LabelGap) - AxisLine.x1
    ELSE IF label.of = "personLabel"
         THEN (label.y - LabelGap) - AxisLine.y1
         ELSE AxisLine.y1 - (label.y + label.height + LabelGap)

C5_Point(arrow, head, label, idx) ==
    /\ Count(EmittedFor(label, idx)) = 1
    /\ \A k \in EmittedFor(label, idx) :
          LET emitted == IF ArrowLengthOf(svg[k]) > 0 THEN 1 ELSE 0
          IN  /\ svg[k].tag = "foreignObject"
              /\ Count(EmittedFor(arrow, idx)) = emitted
              /\ Count(EmittedFor(head, idx)) = emitted
              /\ \A a \in EmittedFor(arrow, idx) : svg[a].tag = "line"
              /\ \A h \in EmittedFor(head, idx) : svg[h].tag = "path"

\* C5: in both orientations, each person and each policy has its arrow line and its
\* arrowhead emitted together exactly when the arrow length (axis to the label's near
\* edge, less 5px) is strictly positive; otherwise neither is emitted, the call
\* still returns, and the label's foreignObject is emitted either way.
C5_ArrowIffPositiveLength ==
    Is1D /\ pc = "done" =>
        /\ \A idx \in 1..Len(Persons(props)) :
              C5_Point("personArrow", "personHead", "personLabel", idx)
        /\ \A idx \in 1..Len(Policies(props)) :
              C5_Point("policyArrow", "policyHead", "policyLabel", idx)

\* one person whose arrow length is exactly zero (no arrow), beside one with an arrow
C5_Witness ==
    /\ Is1D /\ pc = "done" /\ props.orientation = "horizontal"
    /\ \E k \in Emitted("personLabel") :
          /\ ArrowLengthOf(svg[k]) = 0
          /\ EmittedFor("personArrow", svg[k].idx) = {}
    /\ \E k \in Emitted("personLabel") :
          /\ ArrowLengthOf(svg[k]) > 0
          /\ EmittedFor("personHead", svg[k].idx) # {}

----------------------------------------------------------------------------
(* C6 *)

\* C6: the caption's box starts at or past the far edge of everything emitted
\* before it: below every preceding label and the axis when horizontal, to the
\* right of every preceding label and the axis when vertical.
C6_CaptionClearOfContent ==
    Is1D /\ pc = "done" /\ HasSpaceLabel(props) =>
        \A c \in Emitted("spaceLabel") :
            /\ \A k \in Tagged("foreignObject") :
                  k < c => IF props.orientation = "vertical"
                           THEN svg[c].x >= svg[k].x + svg[k].width
                           ELSE svg[c].y >= svg[k].y + svg[k].height
            /\ IF props.orientation = "vertical"
               THEN svg[c].x >= AxisLine.x1
               ELSE svg[c].y >= AxisLine.y1

----------------------------------------------------------------------------
(* C7 *)

NothingToDraw(p) ==
    /\ Persons(p) = <<>> /\ Policies(p) = <<>>
    /\ ~Has(p, "scale") /\ ~Has(p, "spaceLabel")

\* C7: a createSpatialDiagram call with no persons, policies, scale or spaceLabel,
\* with or without LabelDirection, never calls measureLabel and returns markup with
\* exactly one <line>, the axis, and no <path>, <foreignObject> or <marker>.
C7_EmptyDiagramIsAxisOnly ==
    Is1D /\ NothingToDraw(props) =>
        /\ measureCalls = 0 /\ mpc = "none" /\ body = <<>>
        /\ pc # "thrown"
        /\ pc = "done" =>
              /\ Count(Tagged("line")) = 1
              /\ \A k \in Tagged("line") : svg[k] = Axis(props)
              /\ Tagged("path") = {}
              /\ Tagged("foreignObject") = {}
              /\ Tagged("marker") = {}

C7_Witness ==
    /\ Is1D /\ NothingToDraw(props) /\ pc = "done"
    /\ Has(props, "LabelDirection")
    /\ Len(svg) = 3

----------------------------------------------------------------------------
(* C8 *)

\* width=900, height=150, marginX=40, marginY=10 and a single person at 0.5
ExampleCall ==
    /\ Is1D
    /\ [f \in {"width", "height", "marginX", "marginY"} |-> props[f]] = ExampleGeometry
    /\ Len(Persons(props)) = 1
    /\ Persons(props)[1].position = Frac(1, 2)

\* the person's arrow: one line and one arrowhead whose tip is at x
PersonArrowAt(x) ==
    /\ Count(Emitted("personArrow")) = 1
    /\ Count(Emitted("personHead")) = 1
    /\ \A k \in Emitted("personArrow") : svg[k].tag = "line"
    /\ \A k \in Emitted("personHead") : svg[k].tag = "path" /\ svg[k].points[1][1] = x

NoPersonArrow == Emitted("personArrow") = {} /\ Emitted("personHead") = {}

\* C8 as stated: the example call produces an arrow (line plus arrowhead) with tip
\* x = 450 whatever size the label measures.
C8_ExampleArrowAlways == ExampleCall /\ pc = "done" => PersonArrowAt(450)

\* C8: the example call puts the person at x = 450 (horizontal: label centred on
\* 450; vertical: arrow tip on the axis x = 450, y = 75).  The arrow (line plus
\* arrowhead, tip x = 450) is produced exactly when the label leaves room for it:
\* measured height < 60 when horizontal, measured width < 405 when vertical;
\* otherwise there is no arrow and only the label.
C8_ExampleArrowWhenRoom ==
    ExampleCall /\ pc = "done" =>
        /\ Count(Emitted("personLabel")) = 1
        /\ \A k \in Emitted("personLabel") :
              IF props.orientation = "vertical"
              THEN /\ Along(svg[k], 2) = 75
                   /\ IF svg[k].width < 405 THEN PersonArrowAt(450) ELSE NoPersonArrow
              ELSE /\ Along(svg[k], 1) = 450
                   /\ IF svg[k].height < 60 THEN PersonArrowAt(450) ELSE NoPersonArrow

\* the horizontal example with a label short enough for the arrow
C8_Witness ==
    /\ ExampleCall /\ pc = "done" /\ props.orientation = "horizontal"
    /\ \E k \in Emitted("personHead") : svg[k].points[1] = <<450, 75>>

\* the horizontal example with a label too tall for an arrow
C8_WitnessTall ==
    /\ ExampleCall /\ pc = "done" /\ props.orientation = "horizontal"
    /\ \E k \in Emitted("personLabel") : svg[k].height >= 60
    /\ NoPersonArrow

----------------------------------------------------------------------------
(* C9 *)

\* up <-> right, down <-> left
TurnedDirection(direction) ==
    IF direction = "up" THEN "right"
    ELSE IF direction = "right" THEN "up"
    ELSE IF direction = "down" THEN "left"
    ELSE "down"

\* the horizontal input equivalent to a vertical one: width and height swapped,
\* marginX and marginY swapped, arrow direction mapped
Turned(p) ==
    [f \in DOMAIN p |->
        IF f = "width" THEN p.height
        ELSE IF f = "height" THEN p.width
        ELSE IF f = "marginX" THEN p.marginY
        ELSE IF f = "marginY" THEN p.marginX
        ELSE IF f = "orientation" THEN "horizontal"
        ELSE IF f = "LabelDirection" THEN TurnedDirection(p.LabelDirection)
        ELSE p[f]]

\* the same labels measured with width and height swapped
TurnedSurface(surface) ==
    [key \in DOMAIN surface |->
        [width |-> surface[key].height, height |-> surface[key].width]]

\* the quarter turn that takes the horizontal canvas (height h) onto the vertical
\* one (width h): "up" becomes "right" and "down" becomes "left"
RotatePoint(h, xy) == <<h - xy[2], xy[1]>>

\* the geometry of an element after the turn; a line is its two end points
Rotated(h, e) ==
    IF e.tag = "line"
    THEN [tag |-> "line", of |-> e.of, idx |-> e.idx,
          ends |-> {RotatePoint(h, <<e.x1, e.y1>>), RotatePoint(h, <<e.x2, e.y2>>)},
          strokeWidth |-> e.strokeWidth, markerEnd |-> e.markerEnd]
    ELSE IF e.tag = "path"
    THEN [tag |-> "path", of |-> e.of, idx |-> e.idx,
          points |-> [k \in DOMAIN e.points |-> RotatePoint(h, e.points[k])]]
    ELSE IF e.tag = "foreignObject"
    THEN [tag |-> "foreignObject", of |-> e.of, idx |-> e.idx,
          x |-> h - e.y - e.height, y |-> e.x, width |-> e.height,
          height |-> e.width, id |-> e.id, html |-> e.html]
    ELSE [tag |-> e.tag, of |-> e.of, idx |-> e.idx]

\* the geometry of an element as emitted
Geometry(e) ==
    IF e.tag = "line"
    THEN [tag |-> "line", of |-> e.of, idx |-> e.idx,
          ends |-> {<<e.x1, e.y1>>, <<e.x2, e.y2>>},
          strokeWidth |-> e.strokeWidth, markerEnd |-> e.markerEnd]
    ELSE IF e.tag = "path"
    THEN [tag |-> "path", of |-> e.of, idx |-> e.idx, points |-> e.points]
    ELSE IF e.tag = "foreignObject"
    THEN [tag |-> "foreignObject", of |-> e.of, idx |-> e.idx,
          x |-> e.x, y |-> e.y, width |-> e.width, height |-> e.height,
          id |-> e.id, html |-> e.html]
    ELSE [tag |-> e.tag, of |-> e.of, idx |-> e.idx]

Only(markup, roles) ==
    LET Keep(e) == e.of \in roles IN SelectSeq(markup, Keep)

\* the vertical markup, restricted to the roles, is the turned horizontal markup
RotationMaps(roles) ==
    LET horizontal == Only(Render1D(Turned(props), TurnedSurface(rendered)), roles)
        vertical == Only(svg, roles)
        h == props.width
    IN  /\ Len(vertical) = Len(horizontal)
        /\ \A k \in 1..Len(vertical) :
              Geometry(vertical[k]) = Rotated(h, horizontal[k])

AxisAndPointRoles ==
    {"axis", "policyArrow", "policyHead", "policyLabel",
     "personArrow", "personHead", "personLabel"}
TicRoles == {"tic", "ticLabel"}
CaptionRoles == {"spaceLabel", "direction"}

\* C9 as stated: one rotation maps every horizontal-mode element (axis, tics and
\* tic labels, policy and person arrows and labels, caption, direction arrow) onto
\* the vertical-mode element.
C9_RotationMapsEverything ==
    Is1D /\ pc = "done" /\ props.orientation = "vertical" =>
        RotationMaps(AxisAndPointRoles \cup TicRoles \cup CaptionRoles)

\* C9: for equivalent inputs the quarter turn (x, y) -> (h - y, x) maps the axis
\* line and every policy and person arrow line, arrowhead and label box of the
\* horizontal diagram onto the vertical diagram's.  It does not map the tics, the
\* tic labels, the caption or the direction arrow: vertical mode draws them on the
\* +x (policy) side of the axis, where the turn puts them on the person side.
C9_RotationMapsAxisAndPoints ==
    Is1D /\ pc = "done" /\ props.orientation = "vertical" =>
        /\ RotationMaps(AxisAndPointRoles)
        /\ Emitted("tic") # {} => ~RotationMaps({"tic"})
        /\ Emitted("ticLabel") # {} => ~RotationMaps({"ticLabel"})
        /\ Emitted("spaceLabel") # {} => ~RotationMaps({"spaceLabel"})
        /\ Emitted("direction") # {} => ~RotationMaps({"direction"})

\* a vertical diagram with a person's and a policy's arrow, where the turn applies
C9_Witness ==
    /\ Is1D /\ pc = "done" /\ props.orientation = "vertical"
    /\ Emitted("personHead") # {} /\ Emitted("policyHead") # {}
    /\ RotationMaps(AxisAndPointRoles)

\* a vertical diagram with a labelled tic and a direction arrow, where it does not
C9_WitnessTics ==
    /\ Is1D /\ pc = "done" /\ props.orientation = "vertical"
    /\ Emitted("ticLabel") # {} /\ Emitted("direction") # {}
    /\ ~RotationMaps(TicRoles)

----------------------------------------------------------------------------
(* C10 *)

ReturnedMarkup == {k \in 1..Len(returned) : returned[k].status = "returned"}

\* C10: with a label measurement that is a function of (label, fontSize, asLaTeX),
\* every call with the same input returns the same markup, and that markup is the
\* function of the input and the measurements alone, whatever an earlier call
\* (returned or thrown) left behind.
C10_SameInputSameMarkup ==
    /\ \A a, b \in ReturnedMarkup : returned[a].markup = returned[b].markup
    /\ \A a \in ReturnedMarkup : returned[a].markup = Render(callee, props, rendered)

\* two calls returned, with labels measured
C10_Witness ==
    /\ Len(returned) = 2 /\ ReturnedMarkup = {1, 2}
    /\ Is1D /\ Emitted("personLabel") # {} /\ HasSpaceLabel(props)

\* a second call returned after the first threw with its scratch element attached
C10_WitnessAfterThrow ==
    /\ Len(returned) = 2 /\ ReturnedMarkup = {2} /\ body # <<>>
    /\ Is2D /\ Emitted("personLabel2D") # {}

----------------------------------------------------------------------------
(* C11 *)

PersonRoles == {"personArrow", "personHead", "personLabel"}
PolicyRoles == {"policyArrow", "policyHead", "policyLabel"}

\* the props with an optional field left out
WithoutField(p, field) == [f \in DOMAIN p \ {field} |-> p[f]]

\* a policy and a person at the same position
SamePosition ==
    \E a \in 1..Len(Persons(props)), b \in 1..Len(Policies(props)) :
        Persons(props)[a].position = Policies(props)[b].position

\* the statement at pc can run: nothing but a failing measurement stops a call
CanStep == pc \notin {"idle", "done", "thrown"} => ENABLED Next

\* C11: the markup of every person (arrow line, arrowhead, label box) and the
\* caption with its direction arrow are what the same call without any policy
\* emits, and the markup of every policy is what the same call without any person
\* emits; a call with a person and a policy at the same position is never stuck.
C11_PersonsAndPoliciesIndependent ==
    /\ Is1D /\ pc = "done" =>
          /\ Only(svg, PersonRoles \cup CaptionRoles)
               = Only(Render1D(WithoutField(props, "policies"), rendered),
                      PersonRoles \cup CaptionRoles)
          /\ Only(svg, PolicyRoles)
               = Only(Render1D(WithoutField(props, "persons"), rendered), PolicyRoles)
    /\ Is1D /\ SamePosition => CanStep

\* a returned diagram with a person and a policy at the same position and a caption
C11_Witness ==
    /\ Is1D /\ pc = "done" /\ SamePosition /\ HasSpaceLabel(props)
    /\ Emitted("personLabel") # {} /\ Emitted("policyLabel") # {}
    /\ Emitted("spaceLabel") # {}

----------------------------------------------------------------------------
(* C12 *)

Labelled(tics) == {k \in 1..Len(tics) : TicHasLabel(tics[k])}

\* the labels the call measures when nothing fails
LabelsToMeasure ==
    IF Is1D
    THEN Count(Labelled(Tics(props))) + Len(Policies(props)) + Len(Persons(props))
         + (IF HasSpaceLabel(props) THEN 1 ELSE 0)
    ELSE Count(Labelled(HorizontalTics(props))) + Count(Labelled(VerticalTics(props)))
         + Len(HorizontalPolicies(props)) + Len(VerticalPolicies(props))
         + Len(Persons(props))

\* C12: when measuring a label fails, the call ends there with the exception as
\* its only outcome: no markup is returned for it, no statement of the call runs
\* afterwards, and no label is measured twice (at most one measureLabel call per
\* label, exactly one per label when the call returns).
C12_MeasureFailureEndsCall ==
    /\ measureCalls <= LabelsToMeasure
    /\ pc = "done" => measureCalls = LabelsToMeasure
    /\ pc = "thrown" =>
          /\ measureCalls >= 1
          /\ returned = <<Threw>>
          /\ ~ENABLED Next
    /\ \A k \in ReturnedMarkup :
          returned[k].markup[Len(returned[k].markup)] = CloseTag

\* a 1D call that failed on a later label, after markup had been appended
C12_Witness ==
    /\ Is1D /\ pc = "thrown" /\ measureCalls = 2 /\ Tagged("foreignObject") # {}
    /\ returned = <<Threw>>

\* the same in createSpatialDiagram2D
C12_Witness2D ==
    /\ Is2D /\ pc = "thrown" /\ measureCalls = 2 /\ Tagged("foreignObject") # {}

----------------------------------------------------------------------------
(* C13 *)

\* positions below 0 and above 1 beside one inside
PositionsUnchecked == {Frac(-1, 2), Frac(1, 2), Frac(3, 2)}

\* margins of exactly half the canvas, and of more than half
HalfMargins == [width |-> 200, height |-> 100, marginX |-> 100, marginY |-> 50]
WideMargins == [width |-> 200, height |-> 100, marginX |-> 120, marginY |-> 60]
GeometriesUnchecked == {Landscape, HalfMargins, WideMargins}

\* createSpatialDiagram inputs nobody validated, with at most n tics + policies + persons
InputsUnchecked1D(n) ==
    UNION {
        {Props1D(g, o, ps, qs, ts, cap, dir) :
            g \in GeometriesUnchecked, o \in Orientations,
            ps \in [1..len[1] -> PositionsUnchecked],
            qs \in [1..len[2] -> PositionsUnchecked],
            ts \in [1..len[3] -> PositionsUnchecked \X BOOLEAN],
            cap \in BOOLEAN, dir \in {"right", "down", NoDirection}}
        : len \in Lengths(3, n)}

InitUnchecked ==
    InitCall(InputsUnchecked1D(MaxPointsTwice),
             Inputs2D(GeometriesUnchecked, MaxPointsTwice), 1)

SpecUnchecked == InitUnchecked /\ [][Next]_vars

\* coordinate = margin + position * (extent - 2*margin)
AtProportion(coordinate, position, margin, extent) ==
    coordinate * position.den
      = margin * position.den + position.num * (extent - 2 * margin)

C13_Point(e) ==
    LET axis == IF props.orientation = "vertical" THEN 2 ELSE 1
        margin == IF axis = 1 THEN props.marginX ELSE props.marginY
        extent == IF axis = 1 THEN props.width ELSE props.height
        coordinate == Along(e, axis)
    IN  /\ AtProportion(coordinate, Position1D(e), margin, extent)
        /\ ValidMargins(props) /\ ~InUnit(Position1D(e)) =>
              coordinate < margin \/ coordinate > extent - margin

\* C13: createSpatialDiagram neither validates nor clamps.  A point with a position
\* outside [0,1] is emitted at marginStart + position * axisLength, strictly outside
\* the axis when the margins are valid; with margins of half the canvas or more the
\* axis is drawn with zero or negative length; and in neither case does a
\* statement of the call refuse to run.
C13_NoValidationNoClamping ==
    /\ Is1D =>
          \A k \in Indices : svg[k].of \in PointRoles1D => C13_Point(svg[k])
    /\ Is1D /\ pc = "done" /\ ~ValidMargins(props) =>
          IF props.orientation = "vertical"
          THEN AxisLine.y2 - AxisLine.y1 = props.height - 2 * props.marginY
               /\ AxisLine.y2 <= AxisLine.y1
          ELSE AxisLine.x2 - AxisLine.x1 = props.width - 2 * props.marginX
               /\ AxisLine.x2 <= AxisLine.x1
    /\ CanStep
    /\ pc = "thrown" => measureCalls >= 1

\* a returned diagram whose person at 3/2 lies past the end of the axis
C13_Witness ==
    /\ Is1D /\ pc = "done" /\ ValidMargins(props)
    /\ \E k \in Emitted("personLabel") :
          /\ Persons(props)[svg[k].idx].position = Frac(3, 2)
          /\ Along(svg[k], IF props.orientation = "vertical" THEN 2 ELSE 1)
               > (IF props.orientation = "vertical"
                  THEN props.height - props.marginY ELSE props.width - props.marginX)

\* a returned diagram whose margins exceed half the canvas: negative axis length
C13_WitnessMargins ==
    /\ Is1D /\ pc = "done" /\ props.orientation = "horizontal"
    /\ AxisLine.x2 < AxisLine.x1
    /\ Emitted("policyLabel") # {}

----------------------------------------------------------------------------
(* C14 *)

LabelOf(item) == [label |-> item.label, asLaTeX |-> OrFalse(item, "asLaTeX")]

\* the label a foreignObject shows, with the flag the props give that label
OwnLabel(e) ==
    IF e.of = "ticLabel"
    THEN [label |-> Tics(props)[e.idx].label, asLaTeX |-> ScaleLaTeX(props)]
    ELSE IF e.of = "hticLabel"
    THEN [label |-> HorizontalTics(props)[e.idx].label,
          asLaTeX |-> HorizontalScaleLaTeX(props)]
    ELSE IF e.of = "vticLabel"
    THEN [label |-> VerticalTics(props)[e.idx].label,
          asLaTeX |-> VerticalScaleLaTeX(props)]
    ELSE IF e.of = "policyLabel" THEN LabelOf(Policies(props)[e.idx])
    ELSE IF e.of = "hpolicyLabel" THEN LabelOf(HorizontalPolicies(props)[e.idx])
    ELSE IF e.of = "vpolicyLabel" THEN LabelOf(VerticalPolicies(props)[e.idx])
    ELSE IF e.of \in {"personLabel", "personLabel2D"} THEN LabelOf(Persons(props)[e.idx])
    ELSE IF e.of = "spaceLabel" THEN LabelOf(props.spaceLabel)
    ELSE IF e.of = "horizontalLabel" THEN LabelOf(props.horizontalLabel)
    ELSE LabelOf(props.verticalLabel)

\* the box shows its label rendered with the label's own flag, and is exactly as
\* large as the surface measured that label with that flag
SizedAsMeasured(e) ==
    LET own == OwnLabel(e)
        key == <<own.label, e.fontSize, own.asLaTeX>>
    IN  /\ e.html = LabelHtml(own.label, own.asLaTeX)
        /\ e.fontSize = FontSize(props)
        /\ key \in DOMAIN rendered
        /\ e.width = rendered[key].width
        /\ e.height = rendered[key].height

AxisCaptionRoles2D == {"horizontalLabel", "verticalLabel"}

\* C14 as stated: every label box of either variant, the axis captions of
\* createSpatialDiagram2D included, is sized as its label was measured.
C14_EveryLabelMeasured ==
    \A k \in Tagged("foreignObject") : SizedAsMeasured(svg[k])

\* C14: every person, policy and tic label of either variant and the caption of
\* createSpatialDiagram is measured with its own asLaTeX flag and its box is
\* exactly the measured width and height.  The axis captions of
\* createSpatialDiagram2D are not measured: horizontalLabel gets a box of
\* (marginX - 4) x (height - 2*marginY) right of the axis, verticalLabel a box of
\* (width - 2*marginX) x (marginY - 4) at the top.
C14_LabelsMeasuredExceptAxisCaptions ==
    /\ \A k \in Tagged("foreignObject") :
          IF svg[k].of \in AxisCaptionRoles2D
          THEN svg[k].html = LabelHtml(OwnLabel(svg[k]).label, OwnLabel(svg[k]).asLaTeX)
          ELSE SizedAsMeasured(svg[k])
    /\ \A k \in Emitted("horizontalLabel") :
          /\ svg[k].width = props.marginX - 4
          /\ svg[k].height = props.height - 2 * props.marginY
          /\ svg[k].x = props.width - props.marginX + 2
          /\ svg[k].y = props.marginY
    /\ \A k \in Emitted("verticalLabel") :
          /\ svg[k].width = props.width - 2 * props.marginX
          /\ svg[k].height = props.marginY - 4
          /\ svg[k].x = props.marginX
          /\ svg[k].y = 2
    /\ pc = "done" => measureCalls = LabelsToMeasure

\* a returned 2D diagram with a measured label and an unmeasured axis caption
C14_Witness ==
    /\ Is2D /\ pc = "done"
    /\ Emitted("horizontalLabel") # {} \/ Emitted("verticalLabel") # {}
    /\ Tagged("foreignObject") \ (Emitted("horizontalLabel") \cup Emitted("verticalLabel")) # {}

\* a returned 1D diagram with a typeset label and a caption, all measured
C14_Witness1D ==
    /\ Is1D /\ pc = "done" /\ Emitted("spaceLabel") # {}
    /\ \E k \in Emitted("personLabel") : svg[k].html[1] = "katex"

----------------------------------------------------------------------------
(* C15 *)

HAxisLine2D == svg[CHOOSE k \in Indices : svg[k].of = "haxis"]
VAxisLine2D == svg[CHOOSE k \in Indices : svg[k].of = "vaxis"]

\* the gap between the axis and the near edge of a 2D policy label
PolicyGap2D(label) ==
    IF label.of = "hpolicyLabel"
    THEN HAxisLine2D.y1 - (label.y + label.height)
    ELSE VAxisLine2D.x1 - (label.x + label.width)

\* how long the emitted arrow line is
LineLength(e) ==
    (IF e.x2 >= e.x1 THEN e.x2 - e.x1 ELSE e.x1 - e.x2)
    + (IF e.y2 >= e.y1 THEN e.y2 - e.y1 ELSE e.y1 - e.y2)

\* the layout step of createSpatialDiagram: the arrow spans the gap from the axis
\* to the label's near edge less the 5px spacing, and is left out with its
\* arrowhead when that is not positive
SharedArrowStep(arrow, head, label, idx) ==
    \A k \in EmittedFor(label, idx) :
        LET length == PolicyGap2D(svg[k]) - LabelGap
        IN  IF length > 0
            THEN /\ Count(EmittedFor(arrow, idx)) = 1
                 /\ Count(EmittedFor(head, idx)) = 1
                 /\ \A a \in EmittedFor(arrow, idx) : LineLength(svg[a]) = length
            ELSE EmittedFor(arrow, idx) = {} /\ EmittedFor(head, idx) = {}

\* C15 as stated: createSpatialDiagram2D lays out each horizontalPolicy and
\* verticalPolicy by the step it shares with createSpatialDiagram.
C15_PolicyArrows2DShared ==
    Is2D /\ pc = "done" =>
        /\ \A idx \in 1..Len(HorizontalPolicies(props)) :
              SharedArrowStep("hpolicyArrow", "hpolicyHead", "hpolicyLabel", idx)
        /\ \A idx \in 1..Len(VerticalPolicies(props)) :
              SharedArrowStep("vpolicyArrow", "vpolicyHead", "vpolicyLabel", idx)

\* one 10px arrow ending on the axis, its head's tip on the axis, and the label 2px
\* beyond the arrow's far end, whatever the label measures
FixedArrow(arrow, head, label, idx) ==
    /\ Count(EmittedFor(arrow, idx)) = 1
    /\ Count(EmittedFor(head, idx)) = 1
    /\ Count(EmittedFor(label, idx)) = 1
    /\ \A a \in EmittedFor(arrow, idx), h \in EmittedFor(head, idx),
          l \in EmittedFor(label, idx) :
          /\ LineLength(svg[a]) = 10
          /\ <<svg[a].x2, svg[a].y2>> = svg[h].points[1]
          /\ PolicyGap2D(svg[l]) = 12
          /\ IF label = "hpolicyLabel"
             THEN /\ svg[a].y2 = HAxisLine2D.y1 /\ svg[a].x1 = svg[a].x2
                  /\ svg[a].y1 = svg[a].y2 - 10
                  /\ Along(svg[l], 1) = svg[a].x1
             ELSE /\ svg[a].x2 = VAxisLine2D.x1 /\ svg[a].y1 = svg[a].y2
                  /\ svg[a].x1 = svg[a].x2 - 10
                  /\ Along(svg[l], 2) = svg[a].y1

\* C15: createSpatialDiagram2D does not derive the policy arrow from the label.
\* Every horizontalPolicy and verticalPolicy gets an arrow line of fixed length 10
\* ending on its axis and an arrowhead with its tip there, and the label is put
\* 2px beyond the arrow's far end (so the gap from axis to label is always 12);
\* neither is ever left out, however large the label measures.
C15_PolicyArrows2DFixed ==
    Is2D /\ pc = "done" =>
        /\ \A idx \in 1..Len(HorizontalPolicies(props)) :
              FixedArrow("hpolicyArrow", "hpolicyHead", "hpolicyLabel", idx)
        /\ \A idx \in 1..Len(VerticalPolicies(props)) :
              FixedArrow("vpolicyArrow", "vpolicyHead", "vpolicyLabel", idx)

\* a horizontal policy whose label is too tall to fit above the axis, arrow drawn
C15_Witness ==
    /\ Is2D /\ pc = "done"
    /\ \E l \in Emitted("hpolicyLabel") :
          /\ svg[l].y < 0
          /\ EmittedFor("hpolicyArrow", svg[l].idx) # {}
    /\ Emitted("vpolicyHead") # {}

----------------------------------------------------------------------------
(* C16 *)

\* the elements written with an id attribute: the <svg> tag, the <marker>, and the
\* foreignObject of a person, a policy or the caption (id="${label}")
HasIdAttribute(e) ==
    \/ e.tag \in {"svg", "marker"}
    \/ e.of \in {"policyLabel", "personLabel", "spaceLabel",
                 "hpolicyLabel", "vpolicyLabel", "personLabel2D"}

\* the value of the id attribute: <<"arrowhead-", id>> or a plain string
IdValue(e) ==
    IF e.tag = "marker" THEN <<"arrowhead-", e.id[2]>> ELSE <<"", e.id>>

IdBearing(markup) == {k \in 1..Len(markup) : HasIdAttribute(markup[k])}
IdValues(markup) == {IdValue(markup[k]) : k \in IdBearing(markup)}

\* the same call with another diagram id, composited in the same document
OtherDiagram == Render(callee, [props EXCEPT !.id = "spatial-1"], rendered)

OnlyDiagramIds ==
    \A k \in IdBearing(svg) :
        IdValue(svg[k]) \in {<<"", props.id>>, <<"arrowhead-", props.id>>}
NoIdTwice ==
    \A a, b \in IdBearing(svg) : IdValue(svg[a]) = IdValue(svg[b]) => a = b
NoIdShared == IdValues(svg) \cap IdValues(OtherDiagram) = {}

\* C16: every id attribute of a returned diagram is the diagram id or
\* 'arrowhead-<id>', no id value occurs twice in it, and it shares no id value with
\* a diagram generated under another id.
C16_IdsDerivedFromDiagramId ==
    pc = "done" => OnlyDiagramIds /\ NoIdTwice /\ NoIdShared

----------------------------------------------------------------------------
(* C17 *)

\* where the triangle points: away from its two base points
HeadPoints(head, direction) ==
    LET tip == head.points[1]
        base == {head.points[2], head.points[3]}
    IN  IF direction = "up" THEN \A b \in base : b[2] > tip[2]
        ELSE IF direction = "down" THEN \A b \in base : b[2] < tip[2]
        ELSE IF direction = "left" THEN \A b \in base : b[1] > tip[1]
        ELSE \A b \in base : b[1] < tip[1]

\* the point on the axis line at the position of the element's point
AxisPoint(e) ==
    IF props.orientation = "vertical"
    THEN <<AxisLine.x1,
           props.marginY + Times(Position1D(e), props.height - 2 * props.marginY)>>
    ELSE <<props.marginX + Times(Position1D(e), props.width - 2 * props.marginX),
           AxisLine.y1>>

\* the label box lies on the given side of the axis, at least 5px from it
LabelOnSide(label, side) ==
    IF side = "below" THEN label.y >= AxisLine.y1 + 5
    ELSE IF side = "above" THEN label.y + label.height <= AxisLine.y1 - 5
    ELSE IF side = "left" THEN label.x + label.width <= AxisLine.x1 - 5
    ELSE label.x >= AxisLine.x1 + 5

C17_Point(head, label, direction, side) ==
    \A h \in Emitted(head) :
        /\ svg[h].points[1] = AxisPoint(svg[h])
        /\ HeadPoints(svg[h], direction)
        /\ \A l \in EmittedFor(label, svg[h].idx) : LabelOnSide(svg[l], side)

\* C17: in createSpatialDiagram every arrowhead has its tip on the axis line at its
\* point's coordinate and points at the axis from its point's side (persons: up
\* when horizontal, right when vertical; policies: down, left), and the label of
\* every point with an arrow lies wholly on that side, 5px or more from the axis
\* (persons below / left, policies above / right).
C17_ArrowsPointAtAxis ==
    Is1D /\ pc = "done" =>
        IF props.orientation = "vertical"
        THEN /\ C17_Point("personHead", "personLabel", "right", "left")
             /\ C17_Point("policyHead", "policyLabel", "left", "right")
        ELSE /\ C17_Point("personHead", "personLabel", "up", "below")
             /\ C17_Point("policyHead", "policyLabel", "down", "above")

\* a vertical diagram with a person's and a policy's arrow
C17_Witness ==
    /\ Is1D /\ pc = "done" /\ props.orientation = "vertical"
    /\ Emitted("personHead") # {} /\ Emitted("policyHead") # {}
    /\ \E l \in Emitted("policyLabel") : svg[l].x > AxisLine.x1

\* a horizontal diagram with a person's and a policy's arrow
C17_WitnessHorizontal ==
    /\ Is1D /\ pc = "done" /\ props.orientation = "horizontal"
    /\ Emitted("personHead") # {} /\ Emitted("policyHead") # {}

----------------------------------------------------------------------------
(* C18 *)

\* labels that are markup themselves: one leaves its element open, one closes it
OpenMarkupLabel == "<b>K"
ClosedMarkupLabel == "<i>K</i>"

\* the props with the first person's label replaced
Relabelled(p, label) == [p EXCEPT !.persons[1].label = label]

WithMarkupLabels(inputs) ==
    inputs \cup {Relabelled(p, label) :
                    p \in {q \in inputs : Persons(q) # <<>>},
                    label \in {OpenMarkupLabel, ClosedMarkupLabel}}

\* one call on inputs whose labels may be markup
InitMarkup ==
    InitCall(WithMarkupLabels(Inputs1D(Geometries, MaxPointsTwice)),
             WithMarkupLabels(Inputs2D({Landscape}, MaxPointsTwice)), 1)

SpecMarkup == InitMarkup /\ [][Next]_vars

Open(tag) == [open |-> TRUE, tag |-> tag]
Close(tag) == [open |-> FALSE, tag |-> tag]

\* the tags inside ${labelHtml}: katex.renderToString gives a closed <span>, a
\* plain label is copied as it is
LabelTokens(html) ==
    IF html[1] = "katex" THEN <<Open("span"), Close("span")>>
    ELSE IF html[2] = OpenMarkupLabel THEN <<Open("b")>>
    ELSE IF html[2] = ClosedMarkupLabel THEN <<Open("i"), Close("i")>>
    ELSE <<>>

\* the tags of the template literal that wrote the element
Tokens(e) ==
    IF e.tag = "svg" THEN <<Open("svg")>>
    ELSE IF e.tag = "/svg" THEN <<Close("svg")>>
    ELSE IF e.tag = "foreignObject"
    THEN <<Open("foreignObject"), Open("div")>> \o LabelTokens(e.html)
         \o <<Close("div"), Close("foreignObject")>>
    ELSE IF e.tag = "marker"
    THEN <<Open("defs"), Open("marker"), Open("polygon"), Close("polygon"),
           Close("marker"), Close("defs")>>
    ELSE <<Open(e.tag), Close(e.tag)>>

\* the returned string, as the tags it contains in order
Serialised(markup) ==
    LET S[k \in 0..Len(markup)] ==
            IF k = 0 THEN <<>> ELSE S[k - 1] \o Tokens(markup[k])
    IN  S[Len(markup)]

\* every opened element is closed, innermost first
WellNested(tokens) ==
    LET Scan[k \in 0..Len(tokens)] ==
            IF k = 0 THEN [ok |-> TRUE, stack |-> <<>>]
            ELSE LET before == Scan[k - 1]
                     t == tokens[k]
                 IN  IF ~before.ok THEN before
                     ELSE IF t.open
                     THEN [ok |-> TRUE, stack |-> <<t.tag>> \o before.stack]
                     ELSE IF before.stack # <<>> /\ Head(before.stack) = t.tag
                     THEN [ok |-> TRUE, stack |-> Tail(before.stack)]
                     ELSE [ok |-> FALSE, stack |-> before.stack]
    IN  Scan[Len(tokens)].ok /\ Scan[Len(tokens)].stack = <<>>

\* one <svg id width height> first, one </svg> last
Framed ==
    /\ svg[1].tag = "svg" /\ svg[1].id = props.id
    /\ svg[1].width = props.width /\ svg[1].height = props.height
    /\ svg[Len(svg)].tag = "/svg"
    /\ Count(Tagged("svg")) = 1 /\ Count(Tagged("/svg")) = 1
    /\ returned[Len(returned)] = Returned(svg)

OnlyCurrentColor ==
    \A k \in Indices :
        /\ "stroke" \in DOMAIN svg[k] => svg[k].stroke = "currentColor"
        /\ "fill" \in DOMAIN svg[k] => svg[k].fill = "currentColor"

LabelsWellFormed ==
    \A k \in Tagged("foreignObject") : WellNested(LabelTokens(svg[k].html))

\* C18 as stated: every returned document is framed by one <svg> and one </svg>,
\* has every opened element closed inside it, and only currentColor as stroke and
\* fill.
C18_CompleteDocument ==
    pc = "done" => Framed /\ WellNested(Serialised(svg)) /\ OnlyCurrentColor

\* What the code does give: the frame and the colours always; labels are copied
\* into the document unescaped, so the whole is well nested exactly when every
\* plain (not typeset) label is well-nested markup itself.
C18_CompleteDocumentGivenLabels ==
    pc = "done" =>
        /\ Framed
        /\ OnlyCurrentColor
        /\ WellNested(Serialised(svg)) <=> LabelsWellFormed

\* a returned diagram with plain, typeset and closed-markup labels, well nested
C18_Witness ==
    /\ pc = "done" /\ Is1D /\ NeedsMarker(props)
    /\ \E k \in Emitted("personLabel") : svg[k].html[2] = ClosedMarkupLabel
    /\ WellNested(Serialised(svg))

\* a returned diagram with a label that leaves an element open
C18_WitnessOpenLabel ==
    /\ pc = "done"
    /\ \E k \in Tagged("foreignObject") : svg[k].html[2] = OpenMarkupLabel
    /\ ~WellNested(Serialised(svg))

----------------------------------------------------------------------------
(* C19 *)

AtCentre(person) == person.x = Frac(1, 2) /\ person.y = Frac(1, 2)

\* C19: the horizontal axis of a 2D diagram is the segment y = height/2 from
\* x = marginX to x = width - marginX, the vertical axis the segment x = width/2
\* from y = marginY to y = height - marginY, whatever the margins; the dot of a
\* person at (0.5, 0.5) is centred on the point where they cross.
C19_AxesCrossAtCentre ==
    (Is2D /\ pc \notin {"idle", "axis", "thrown"}) =>
        /\ Count(Emitted("haxis")) = 1 /\ Count(Emitted("vaxis")) = 1
        /\ 2 * HAxisLine2D.y1 = props.height /\ HAxisLine2D.y2 = HAxisLine2D.y1
        /\ HAxisLine2D.x1 = props.marginX
        /\ HAxisLine2D.x2 = props.width - props.marginX
        /\ 2 * VAxisLine2D.x1 = props.width /\ VAxisLine2D.x2 = VAxisLine2D.x1
        /\ VAxisLine2D.y1 = props.marginY
        /\ VAxisLine2D.y2 = props.height - props.marginY
        /\ \A k \in Emitted("dot") :
               AtCentre(Persons(props)[svg[k].idx]) =>
                   /\ svg[k].cx = VAxisLine2D.x1 /\ svg[k].cy = HAxisLine2D.y1
                   /\ 2 * svg[k].cx = props.width /\ 2 * svg[k].cy = props.height

\* a returned 2D diagram with a person at (0.5, 0.5)
C19_Witness ==
    /\ Is2D /\ pc = "done"
    /\ \E k \in Emitted("dot") : AtCentre(Persons(props)[svg[k].idx])

\* the same on a canvas whose margins are wider than half of it
C19_WitnessWideMargins ==
    /\ C19_Witness
    /\ 2 * props.marginX > props.width /\ 2 * props.marginY > props.height

----------------------------------------------------------------------------
(* C20 *)

PersonRoles2D == {"guide", "dot", "personLabel2D"}

\* what a markup holds for the person at index k
OfPerson(markup, k) ==
    LET Keep(e) == e.of \in PersonRoles2D /\ e.idx = k IN SelectSeq(markup, Keep)

\* the props with the guides flag of person k set to the value
WithGuides(p, k, value) == [p EXCEPT !.persons[k] = [guides |-> value] @@ @]

DashedLines == {k \in Tagged("line") : svg[k].dashed}

Segment(e) == <<e.x1, e.y1, e.x2, e.y2>>

C20_Person(k) ==
    LET person == Persons(props)[k]
        guided == OrFalse(person, "guides")
        dot == svg[CHOOSE d \in EmittedFor("dot", k) : TRUE]
        x == dot.cx
        y == dot.cy
        own == {g \in DashedLines : svg[g].idx = k}
    IN  /\ Count({d \in Tagged("circle") : svg[d].idx = k}) = 1
        /\ Count(EmittedFor("dot", k)) = 1
        /\ AtProportion(x, person.x, props.marginX, props.width)
        /\ AtProportion(y, person.y, props.marginY, props.height)
        /\ Count(EmittedFor("personLabel2D", k)) = 1
        /\ \A l \in EmittedFor("personLabel2D", k) : svg[l].html[2] = person.label
        /\ Count(own) = IF guided THEN 2 ELSE 0
        /\ guided =>
              /\ \E g \in own : /\ Segment(svg[g]) = <<x, y, x, HAxisLine2D.y1>>
                                /\ 2 * svg[g].y2 = props.height
              /\ \E g \in own : /\ Segment(svg[g]) = <<x, y, VAxisLine2D.x1, y>>
                                /\ 2 * svg[g].x2 = props.width
        /\ \A j \in 1..Len(Persons(props)) \ {k} :
               OfPerson(Render2D(WithGuides(props, k, ~guided), rendered), j)
                 = OfPerson(svg, j)

\* C20: in a returned 2D diagram every person has exactly one dot at its (x, y)
\* and one label; it has two dashed lines, one from (x, y) to (x, centerY) and one
\* from (x, y) to (centerX, y), exactly when its guides flag is true and none
\* otherwise; no other line is dashed, and turning one person's flag over leaves
\* the markup of every other person as it is.
C20_GuidesPerPerson ==
    (Is2D /\ pc = "done") =>
        /\ \A k \in 1..Len(Persons(props)) : C20_Person(k)
        /\ \A g \in DashedLines : svg[g].of = "guide"
        /\ Count(Tagged("circle")) = Len(Persons(props))

\* a returned 2D diagram with one person with guides and one without
C20_Witness ==
    /\ Is2D /\ pc = "done" /\ Len(Persons(props)) = 2
    /\ OrFalse(Persons(props)[1], "guides") /\ ~OrFalse(Persons(props)[2], "guides")
    /\ Count(DashedLines) = 2

----------------------------------------------------------------------------
(* generateLeftBracket (bracket-generator.js) *)

\* Numbers are kept in thousandths, so that every product below is exact.
Scaled(x) == x * 1000

\* x * 0.3, x * 0.9, ... : a value in thousandths times a decimal given in thousandths
Dec(x, thousandths) == (x * thousandths) \div 1000

DefaultNipplePercent == 30
NippleX == 3
NippleShoulder == 6

\* nipplePercent = 30 when the argument is not passed
NipplePercentOf(args) ==
    IF Has(args, "nipplePercent") THEN args.nipplePercent ELSE DefaultNipplePercent

\* a faulty variant: the percentage counted from the bottom
nippleYFromBottom(nipplePercent, height) ==
    Scaled(height) - (Scaled(nipplePercent) \div 100) * height

\* const nippleY = (nipplePercent / 100) * height
nippleYOf(nipplePercent, height) == (Scaled(nipplePercent) \div 100) * height

\* the returned path: M point, then four C segments of three points each
generateLeftBracket(width, height, nipplePercent) ==
    LET armTopY == 0
        armBottomY == Scaled(height)
        armLeftX == Dec(Scaled(width), 300)
        armRightX == Dec(Scaled(width), 900)
        nippleX == Scaled(NippleX)
        nippleY == nippleYOf(nipplePercent, height)
        topArmLength == nippleY - armTopY
        bottomArmLength == armBottomY - nippleY
        topMidY == armTopY + Dec(topArmLength, 300)
        topCurveY == armTopY + Dec(topArmLength, 700)
        bottomCurveY == nippleY + Dec(bottomArmLength, 300)
        bottomMidY == nippleY + Dec(bottomArmLength, 700)
    IN  << <<armRightX, armTopY>>,
           <<armLeftX + Dec(Scaled(width), 100), armTopY>>, <<armLeftX, armTopY>>,
           <<armLeftX, topMidY>>,
           <<armLeftX, topCurveY>>,
           <<armLeftX + Dec(Scaled(width), 60), nippleY - Scaled(NippleShoulder)>>,
           <<nippleX, nippleY>>,
           <<armLeftX + Dec(Scaled(width), 60), nippleY + Scaled(NippleShoulder)>>,
           <<armLeftX, bottomCurveY>>,
           <<armLeftX, bottomMidY>>,
           <<armLeftX, armBottomY>>,
           <<armLeftX + Dec(Scaled(width), 100), armBottomY>>,
           <<armRightX, armBottomY>> >>

IsBracket == callee = "generateLeftBracket"

\* the call and its return
GenerateLeftBracket ==
    /\ IsBracket
    /\ pc = "idle"
    /\ callsLeft > 0
    /\ callsLeft' = callsLeft - 1
    /\ pc' = "done"
    /\ returned' = Append(returned,
                          Returned(generateLeftBracket(props.width, props.height,
                                                       NipplePercentOf(props))))
    /\ UNCHANGED <<callee, props, i, svg, maxPersonLabel, mpc, labelDims, body,
                   rendered, measureCalls>>

\* the caller calls again with the same arguments
BracketAgain ==
    /\ IsBracket
    /\ pc = "done"
    /\ callsLeft > 0
    /\ pc' = "idle"
    /\ UNCHANGED <<callee, props, i, svg, maxPersonLabel, mpc, labelDims, body,
                   rendered, returned, callsLeft, measureCalls>>

BracketSizes == {10, 20, 50, 100}
\* 0..100 in steps of ten, and one value on each side of the range
NipplePercents == {-10, 0, 10, 20, 30, 40, 50, 60, 70, 80, 90, 100, 110}

InputsBracket ==
    {[width |-> w, height |-> h] : w \in BracketSizes, h \in BracketSizes}
    \cup {[width |-> w, height |-> h, nipplePercent |-> n] :
             w \in BracketSizes, h \in BracketSizes, n \in NipplePercents}

InitBracket ==
    /\ callee = "generateLeftBracket"
    /\ props \in InputsBracket
    /\ pc = "idle"
    /\ i = 1
    /\ svg = <<>>
    /\ maxPersonLabel = 0
    /\ mpc = "none"
    /\ labelDims = [width |-> 0, height |-> 0]
    /\ body = <<>>
    /\ rendered = NoFields
    /\ returned = <<>>
    /\ callsLeft = 2
    /\ measureCalls = 0

NextBracket == GenerateLeftBracket \/ BracketAgain

SpecBracket == InitBracket /\ [][NextBracket]_vars

----------------------------------------------------------------------------
(* C21 *)

BracketPath == returned[Len(returned)].markup
BracketX(k) == BracketPath[k][1]
BracketY(k) == BracketPath[k][2]
InRange(percent) == 0 <= percent /\ percent <= 100

\* C21: the nipple (end of the second curve) is at x = 3 and
\* y = (nipplePercent/100)*height, so 0 puts it at the top and 100 at the bottom;
\* an omitted nipplePercent is 30; the path starts at (0.9*width, 0) and ends at
\* (0.9*width, height); for nipplePercent in [0,100] the control values satisfy
\* 0 <= topMidY <= topCurveY <= nippleY <= bottomCurveY <= bottomMidY <= height.
C21_BracketNipple ==
    (IsBracket /\ pc = "done") =>
        LET percent == IF Has(props, "nipplePercent") THEN props.nipplePercent ELSE 30
        IN  /\ Len(BracketPath) = 13
            /\ BracketX(7) = 3 * 1000
            /\ 100 * BracketY(7) = percent * props.height * 1000
            /\ percent = 0 => BracketY(7) = 0
            /\ percent = 100 => BracketY(7) = props.height * 1000
            /\ ~Has(props, "nipplePercent") =>
                   BracketPath = generateLeftBracket(props.width, props.height, 30)
            /\ 10 * BracketX(1) = 9 * props.width * 1000 /\ BracketY(1) = 0
            /\ BracketX(13) = BracketX(1) /\ BracketY(13) = props.height * 1000
            /\ InRange(percent) =>
                   /\ 0 <= BracketY(4) /\ BracketY(4) <= BracketY(5)
                   /\ BracketY(5) <= BracketY(7) /\ BracketY(7) <= BracketY(9)
                   /\ BracketY(9) <= BracketY(10)
                   /\ BracketY(10) <= props.height * 1000
            /\ \A a, b \in 1..Len(returned) : returned[a] = returned[b]

\* a bracket returned for a nipple placed strictly inside, off the middle
C21_Witness ==
    /\ IsBracket /\ pc = "done" /\ Has(props, "nipplePercent")
    /\ props.nipplePercent = 70
    /\ 0 < BracketY(4) /\ BracketY(10) < props.height * 1000

\* a bracket returned for the default nipple
C21_WitnessDefault ==
    /\ IsBracket /\ pc = "done" /\ ~Has(props, "nipplePercent")
    /\ 10 * BracketY(7) = 3 * props.height * 1000

----------------------------------------------------------------------------
(* C22 *)

OtherFontSize == 12

\* the ways a caller can write an input: an option left out, or written out
Spellings(p) ==
    {p, p @@ [fontSize |-> 16], p @@ [fontSize |-> OtherFontSize],
     p @@ [persons |-> <<>>], p @@ [policies |-> <<>>],
     p @@ [persons |-> <<>>, policies |-> <<>>, fontSize |-> 16]}
    \cup (IF p.orientation = "horizontal"
          THEN {WithoutField(p, "orientation"),
                WithoutField(p, "orientation") @@ [fontSize |-> 16]}
          ELSE {})

InputsSpelled1D(n) == UNION {Spellings(p) : p \in Inputs1D({Landscape}, n)}

\* one call on an input with options left out or written out
InitSpelled ==
    InitCall(InputsSpelled1D(MaxPointsTwice), Inputs2D({Landscape}, MaxPointsTwice), 1)

SpecSpelled == InitSpelled /\ [][Next]_vars

\* every option that has a default, written out
WrittenOut(p) ==
    p @@ [orientation |-> "horizontal", fontSize |-> 16, persons |-> <<>>,
          policies |-> <<>>]

\* every option left out whose value is the documented default
LeftOut(p) ==
    LET defaults == [orientation |-> "horizontal", fontSize |-> 16,
                     persons |-> <<>>, policies |-> <<>>]
        Kept == {f \in DOMAIN p : f \in DOMAIN defaults => p[f] # defaults[f]}
    IN  [f \in Kept |-> p[f]]

\* C22: a call of createSpatialDiagram returns the same markup whether orientation
\* is left out or 'horizontal', whether fontSize is left out or 16, and whether
\* persons or policies are left out or empty arrays; with fontSize left out every
\* label is measured at 16px.
C22_OptionDefaults ==
    /\ (Is1D /\ pc = "done") =>
           /\ svg = Render1D(WrittenOut(props), rendered)
           /\ svg = Render1D(LeftOut(props), rendered)
    /\ (Is1D /\ ~Has(props, "fontSize")) =>
           /\ \A k \in 1..Len(body) : body[k].fontSize = 16
           /\ \A key \in DOMAIN rendered : key[2] = 16
           /\ \A k \in Tagged("foreignObject") : svg[k].fontSize = 16

\* a returned call that left out orientation and fontSize and measured a label
C22_Witness ==
    /\ Is1D /\ pc = "done"
    /\ ~Has(props, "orientation") /\ ~Has(props, "fontSize")
    /\ Persons(props) # <<>> /\ ~Has(props, "policies")
    /\ measureCalls > 0

\* a returned call that wrote out the empty arrays and the font size
C22_WitnessWrittenOut ==
    /\ Is1D /\ pc = "done"
    /\ Has(props, "persons") /\ Has(props, "policies") /\ Has(props, "fontSize")
    /\ props.persons = <<>> /\ measureCalls > 0

----------------------------------------------------------------------------
(* C23 *)

IsHorizontal == Is1D /\ ~isVertical(props)

Reverse(seq) == [k \in 1..Len(seq) |-> seq[Len(seq) + 1 - k]]

\* the same input with the persons array in the opposite order
PersonsReversed(p) ==
    IF Has(p, "persons") THEN [p EXCEPT !.persons = Reverse(@)] ELSE p

\* the lowest bottom edge among the person label boxes drawn so far, and the axis
LowestBottom ==
    LET bottoms == {svg[k].y + svg[k].height : k \in Emitted("personLabel")}
    IN  IF bottoms = {} THEN Half(props.height)
        ELSE Max(Half(props.height), CHOOSE b \in bottoms : \A c \in bottoms : c <= b)

\* what the running maximum is once n persons are processed
BottomAfter(n) ==
    IF n = 0 THEN Half(props.height)
    ELSE IF 2 * props.marginY <= props.height THEN props.height - props.marginY
    ELSE Half(props.height)

C23_Caption ==
    IsHorizontal =>
        /\ pc = "persons" =>
              /\ maxPersonLabel = BottomAfter(i - 1)
              /\ maxPersonLabel = LowestBottom
        /\ \A k \in Emitted("spaceLabel") :
              /\ svg[k].y = 10 + LowestBottom
              /\ svg[k].y = 10 + BottomAfter(Len(Persons(props)))
        /\ \A k \in Emitted("personLabel") :
              svg[k].y + svg[k].height = props.height - props.marginY
        /\ pc = "done" =>
              Only(svg, CaptionRoles)
                = Only(Render1D(PersonsReversed(props), rendered), CaptionRoles)

\* C23: in horizontal mode the caption's top edge is 10 below the larger of
\* height/2 and the lowest person label bottom; every person label is bottom
\* aligned at height - marginY, so with a person and marginY <= height/2 the edge
\* is height - marginY + 10 and with no person height/2 + 10; the running maximum
\* never decreases while the persons are processed, and the caption is the same
\* for the persons array in the opposite order.
C23_CaptionBelowLowestLabel ==
    /\ []C23_Caption
    /\ [][(IsHorizontal /\ pc = "persons") => maxPersonLabel' >= maxPersonLabel]_vars

\* a returned horizontal diagram with a caption under two persons whose labels
\* have different sizes
C23_Witness ==
    /\ IsHorizontal /\ pc = "done" /\ Len(Persons(props)) = 2
    /\ Emitted("spaceLabel") # {}
    /\ \E a, b \in Emitted("personLabel") : svg[a].height # svg[b].height
    /\ Persons(props)[1].position # Persons(props)[2].position

\* a returned horizontal diagram with a caption and no person
C23_WitnessNoPerson ==
    /\ IsHorizontal /\ pc = "done" /\ Persons(props) = <<>>
    /\ \E k \in Emitted("spaceLabel") : 2 * (svg[k].y - 10) = props.height

----------------------------------------------------------------------------
(* C24 *)

\* the place of a role in the order claimed: the group, then the part within
\* one tic, policy or person
GroupOf(of) ==
    IF of = "open" THEN 1
    ELSE IF of = "axis" THEN 2
    ELSE IF of \in TicRoles THEN 3
    ELSE IF of \in PolicyRoles THEN 4
    ELSE IF of \in PersonRoles THEN 5
    ELSE IF of = "spaceLabel" THEN 6
    ELSE IF of = "direction" THEN 7
    ELSE IF of = "marker" THEN 8
    ELSE 9

PartOf(of) ==
    IF of \in {"tic", "policyArrow", "personArrow"} THEN 1
    ELSE IF of \in {"policyHead", "personHead"} THEN 2
    ELSE IF of \in {"ticLabel", "policyLabel", "personLabel"} THEN 3
    ELSE 0

\* a comes before b: earlier group, or earlier array index, or earlier part
Before(a, b) ==
    \/ GroupOf(a.of) < GroupOf(b.of)
    \/ GroupOf(a.of) = GroupOf(b.of) /\ a.idx < b.idx
    \/ GroupOf(a.of) = GroupOf(b.of) /\ a.idx = b.idx /\ PartOf(a.of) < PartOf(b.of)

\* C24: at every moment of a call of createSpatialDiagram the elements appended
\* so far stand in the one fixed order: opening tag, axis, tics in scale.tics
\* order (mark, then at once its label if it has one), policies in array order
\* (arrow line, arrowhead, label), persons in array order, caption, direction
\* line, marker definition, closing tag; a returned markup begins with the
\* opening tag and ends with the closing tag.
C24_FixedOrder ==
    Is1D =>
        /\ \A k \in Indices \ {1} : Before(svg[k - 1], svg[k])
        /\ \A k \in Emitted("ticLabel") :
               svg[k - 1].of = "tic" /\ svg[k - 1].idx = svg[k].idx
        /\ \A k \in Emitted("policyHead") \cup Emitted("personHead") :
               /\ svg[k - 1].idx = svg[k].idx
               /\ svg[k - 1].of \in {"policyArrow", "personArrow"}
               /\ svg[k + 1].idx = svg[k].idx
               /\ svg[k + 1].of \in {"policyLabel", "personLabel"}
        /\ pc = "done" => svg[1].of = "open" /\ svg[Len(svg)].of = "close"

\* a returned diagram with a policy, a person, a caption, a direction line and
\* the marker definition
C24_Witness ==
    /\ Is1D /\ pc = "done"
    /\ Emitted("policyHead") # {} /\ Emitted("personHead") # {}
    /\ Emitted("direction") # {} /\ Emitted("marker") # {}

\* a returned diagram with two tics, the first of them labelled
C24_WitnessTics ==
    /\ Is1D /\ pc = "done"
    /\ Count(Emitted("tic")) = 2 /\ EmittedFor("ticLabel", 1) # {}

----------------------------------------------------------------------------
(* C25 *)

\* between the attach and the detach of one measureLabel call
Measuring == mpc \in {"attached", "measured"}

C25_Surface ==
    pc # "thrown" =>
        /\ Len(body) <= 1
        /\ body # <<>> <=> Measuring
        /\ \A k \in 1..Len(body) :
               body[k] = TempDiv(MeasureArgs.label, MeasureArgs.fontSize,
                                 MeasureArgs.asLaTeX)
        /\ measureCalls <= LabelsToMeasure
        /\ pc = "done" => body = <<>> /\ measureCalls = LabelsToMeasure

\* C25: while a call of createSpatialDiagram or createSpatialDiagram2D runs
\* without a failure, at most one scratch element is attached to the document at
\* a time, an element is attached only when the one before it has been detached,
\* there is one attach per label to measure (1D: policies, persons, tics with a
\* non-empty label, and the caption if present), and when the call returns the
\* document holds no scratch element, as before the call.
C25_SurfaceDiscipline ==
    /\ []C25_Surface
    /\ [][pc' # "thrown" =>
            /\ Len(body') > Len(body) =>
                  body = <<>> /\ measureCalls' = measureCalls + 1
            /\ measureCalls' # measureCalls => Len(body') = Len(body) + 1]_vars

\* a returned call that measured two labels, one after the other
C25_Witness ==
    /\ pc = "done" /\ measureCalls = 2 /\ body = <<>>
    /\ Count(Tagged("foreignObject")) = 2

\* the scratch element of a second label, alone on the document
C25_WitnessAttached ==
    /\ pc \notin {"done", "thrown"} /\ measureCalls = 2 /\ Len(body) = 1

----------------------------------------------------------------------------
(* The older createSpatialDiagram (no scale, no orientation) *)

\* const { ..., fontSize = 16, persons = [], policies = [], ... } = props
OlderFontSize(p) == IF Has(p, "fontSize") THEN p.fontSize ELSE 16
OlderPersons(p) == IF Has(p, "persons") THEN p.persons ELSE <<>>
OlderPolicies(p) == IF Has(p, "policies") THEN p.policies ELSE <<>>

\* createArrow(x, y, direction: 'up' | 'down')
OlderCreateArrow(of, idx, x, y, direction) ==
    LET size == 6 IN
    IF direction = "up"
    THEN Path(of, idx, <<<<x, y>>, <<x - size, y + size>>, <<x + size, y + size>>>>)
    ELSE Path(of, idx, <<<<x, y>>, <<x - size, y - size>>, <<x + size, y - size>>>>)

\* a faulty variant: the line a third of the way down
OlderLineYThird(p) == p.height \div 3

OlderLineY(p) == Half(p.height)
OlderLineStartX(p) == p.marginX
OlderLineEndX(p) == p.width - p.marginX
OlderLineLength(p) == OlderLineEndX(p) - OlderLineStartX(p)

OlderAxis(p) ==
    Line("axis", 0, OlderLineStartX(p), OlderLineY(p), OlderLineEndX(p),
         OlderLineY(p), 2, <<>>, FALSE)

\* for (const policy of policies): one turn of the loop
OlderPolicy(p, policy, idx, dims) ==
    LET x == OlderLineStartX(p) + Times(policy.position, OlderLineLength(p))
        useLaTeX == OrFalse(policy, "asLaTeX")
        labelX == x - Half(dims.width)
        arrowTopY == p.marginY + dims.height + 5
        arrowHeight == OlderLineY(p) - arrowTopY
        labelY == p.marginY
    IN  (IF arrowHeight > 0
         THEN <<Line("policyArrow", idx, x, arrowTopY, x, OlderLineY(p), 1, <<>>,
                     FALSE),
                OlderCreateArrow("policyHead", idx, x, OlderLineY(p), "down")>>
         ELSE <<>>)
        \o <<ForeignObject("policyLabel", idx, labelX, labelY, dims.width,
                           dims.height, policy.label,
                           LabelHtml(policy.label, useLaTeX), OlderFontSize(p),
                           "center")>>

\* for (const person of persons): one turn of the loop
OlderPerson(p, person, idx, dims) ==
    LET x == OlderLineStartX(p) + Times(person.position, OlderLineLength(p))
        useLaTeX == OrFalse(person, "asLaTeX")
        labelY == p.height - p.marginY - dims.height
        arrowBottomY == labelY - 5
        arrowHeight == arrowBottomY - OlderLineY(p)
        labelX == x - Half(dims.width)
    IN  (IF arrowHeight > 0
         THEN <<Line("personArrow", idx, x, OlderLineY(p), x, arrowBottomY, 1, <<>>,
                     FALSE),
                OlderCreateArrow("personHead", idx, x, OlderLineY(p), "up")>>
         ELSE <<>>)
        \o <<ForeignObject("personLabel", idx, labelX, labelY, dims.width,
                           dims.height, person.label,
                           LabelHtml(person.label, useLaTeX), OlderFontSize(p),
                           "center")>>

\* maxPersonLabelBottom = Math.max(maxPersonLabelBottom, labelY + labelDims.height)
OlderPersonMax(p, dims, maxSoFar) ==
    LET labelY == p.height - p.marginY - dims.height
    IN  Max(maxSoFar, labelY + dims.height)

\* if (spaceLabel) { ... if (LabelDirection) { ... } }
OlderSpaceLabel(p, dims, maxPersonLabelBottom) ==
    LET useLaTeX == OrFalse(p.spaceLabel, "asLaTeX")
        lineCenterX == OlderLineStartX(p) + Half(OlderLineLength(p))
        labelX == lineCenterX - Half(dims.width)
        labelY == maxPersonLabelBottom + 10
        arrowY == labelY + dims.height + 10
        arrowLength == 40
    IN  <<ForeignObject("spaceLabel", 0, labelX, labelY, dims.width, dims.height,
                        p.spaceLabel.label,
                        LabelHtml(p.spaceLabel.label, useLaTeX), OlderFontSize(p),
                        "center")>>
        \o (IF Has(p, "LabelDirection")
            THEN IF p.LabelDirection = "right"
                 THEN <<Line("direction", 0, lineCenterX - Half(arrowLength), arrowY,
                             lineCenterX + Half(arrowLength), arrowY, 1,
                             MarkerUrl(p), FALSE)>>
                 ELSE <<Line("direction", 0, lineCenterX + Half(arrowLength), arrowY,
                             lineCenterX - Half(arrowLength), arrowY, 1,
                             MarkerUrl(p), FALSE)>>
            ELSE <<>>)

\* the older function as a whole, measuring on the given surface
createSpatialDiagramOlder(p, surface) ==
    LET policies == OlderPolicies(p)
        persons == OlderPersons(p)
        Dims(point) == Rect(surface, point.label, OlderFontSize(p),
                            OrFalse(point, "asLaTeX"))
        Q[k \in 0..Len(policies)] ==
            IF k = 0 THEN <<>>
            ELSE Q[k - 1] \o OlderPolicy(p, policies[k], k, Dims(policies[k]))
        P[k \in 0..Len(persons)] ==
            IF k = 0 THEN <<>>
            ELSE P[k - 1] \o OlderPerson(p, persons[k], k, Dims(persons[k]))
        M[k \in 0..Len(persons)] ==
            IF k = 0 THEN OlderLineY(p)
            ELSE OlderPersonMax(p, Dims(persons[k]), M[k - 1])
    IN  <<OpenTag(p), OlderAxis(p)>>
        \o Q[Len(policies)]
        \o P[Len(persons)]
        \o (IF Has(p, "spaceLabel")
            THEN OlderSpaceLabel(p, Dims(p.spaceLabel), M[Len(persons)])
            ELSE <<>>)
        \o (IF Has(p, "spaceLabel") /\ Has(p, "LabelDirection")
            THEN <<MarkerDef(p)>> ELSE <<>>)
        \o <<CloseTag>>

\* the older function called with the props the newer one just returned for, on
\* a surface that answers as it did
CallOlder ==
    /\ Is1D
    /\ pc = "done"
    /\ pc' = "older"
    /\ returned' = Append(returned, Returned(createSpatialDiagramOlder(props, rendered)))
    /\ UNCHANGED <<callee, props, i, svg, maxPersonLabel, mpc, labelDims, body,
                   rendered, callsLeft, measureCalls>>

\* what the older SpatialDiagramProps accepts: no scale, no orientation,
\* LabelDirection 'left' or 'right' or absent
InputsOlder(n) ==
    {WithoutField(p, "orientation") :
        p \in {q \in Inputs1D(Geometries, n) :
                  /\ q.orientation = "horizontal"
                  /\ ~Has(q, "scale")
                  /\ Has(q, "LabelDirection") => q.LabelDirection \in {"left", "right"}}}

InitOlder == InitCall(InputsOlder(MaxPoints), {}, 1)

\* the newer function statement by statement on such an input, then the older one
NextOlder ==
    \/ Call
    \/ MeasureAttach
    \/ MeasureRenderThrows
    \/ MeasureRect
    \/ MeasureRectThrows
    \/ MeasureDetach
    \/ DrawAxis
    \/ TicsDone
    \/ DrawPolicy
    \/ PoliciesDone
    \/ DrawPerson
    \/ PersonsDone
    \/ DrawSpaceLabel
    \/ SkipSpaceLabel
    \/ DrawMarker
    \/ Return
    \/ CallOlder

SpecOlder == InitOlder /\ [][NextOlder]_vars

----------------------------------------------------------------------------
(* C26 *)

\* C26: on every input the older createSpatialDiagram accepts (no scale, no
\* orientation, LabelDirection left, right or absent) the newer one with its
\* default orientation returns the same sequence of elements, with the same
\* coordinates, sizes, ids, label markup and marker references, as the older one.
C26_NewerRefinesOlder ==
    pc = "older" =>
        /\ Len(returned) = 2
        /\ returned[1].status = "returned" /\ returned[2].status = "returned"
        /\ returned[1].markup = svg
        /\ returned[2].markup = returned[1].markup

\* both have returned a diagram with a policy arrow, a person, a caption and a
\* direction line
C26_Witness ==
    /\ pc = "older"
    /\ Emitted("policyHead") # {} /\ Emitted("personLabel") # {}
    /\ Emitted("direction") # {} /\ Emitted("marker") # {}

\* both have returned a diagram whose person arrow has no room
C26_WitnessNoArrow ==
    /\ pc = "older"
    /\ Emitted("personLabel") # {} /\ Emitted("personHead") = {}

====
